---- MODULE Spec2Model ----
(***************************************************************************)
(* The field/form registration-and-validation protocol of yew-bulma:       *)
(* the registry FormFieldLink (form/link.rs), the Form component           *)
(* (form/form_component.rs), its older variant with Cancel (form/form.rs)  *)
(* and the InputField component (form/input_field.rs).                     *)
(*                                                                         *)
(* The host framework is modelled by what the components use of it: a      *)
(* FIFO queue of component messages (ComponentLink::send_message never     *)
(* runs the receiver inside the sender's update; it appends to the         *)
(* scheduler's queue) and a pool of validation futures in flight           *)
(* (ComponentLink::send_future), which complete in any order.  DOM events   *)
(* and completed futures are tasks of the browser's event loop: they       *)
(* arrive between two runs of the scheduler, when the queue is empty.      *)
(* The application may call the registry's public send_* functions at any  *)
(* time, also from a callback that runs inside a handler.                  *)
(***************************************************************************)
EXTENDS Integers, Sequences, FiniteSets, TLC

\* ------------------------------------------------------------- bounds
NumFields == 2
MaxEvents == 2

\* ------------------------------------------------------------- universe
Fields == 1..NumFields
Keys == 1..NumFields
Regs == {"R1", "R2"}
Forms == {"F1", "F2"}
NoForm == "none"
Values == {"", "x", "ok"}
Messages == {"required", "invalid", "extra"}
ValidationErrors == SUBSET (Keys \X Messages)

VARIABLES
    field_links,   \* FormFieldLink.field_links of each registry: key -> field handle
    form_link,     \* FormFieldLink.form_link of each registry: a form handle or NoForm
    form,          \* the Form components
    field,         \* the InputField components
    queue,         \* the host's queue of component messages
    futures,       \* per field, the results of the validations in flight
    panicked,      \* a panic has ended the program
    step,          \* the message handled last and what its handler emitted and sent
    hist,          \* per form: messages handled and notifications emitted so far
    events         \* events the environment has produced

vars == <<field_links, form_link, form, field, queue, futures, panicked, step, hist, events>>

\* ------------------------------------------------------------- messages
Msg(dest, f, i, type, key, errs, val, src) ==
    [dest |-> dest, form |-> f, field |-> i, type |-> type, key |-> key,
     errs |-> errs, val |-> val, src |-> src]

FormMsg(f, type, key, errs) == Msg("form", f, 0, type, key, errs, "", "")

FieldMsg(i, type) == Msg("field", NoForm, i, type, 0, {}, "", "")

InputFieldMsg(i, type, errs, val, src) == Msg("field", NoForm, i, type, 0, errs, val, src)

\* A callback of the properties, emitted to the application.
Callback(name, key, errs, val) == Msg("app", NoForm, 0, name, key, errs, val, "")

Emitted(c) == [kind |-> "emit", m |-> c]
Sent(m) == [kind |-> "send", m |-> m]
Spawned(i, errs) == [kind |-> "spawn", m |-> InputFieldMsg(i, "SetValidationErrors", errs, "", "")]
Panic == [kind |-> "panic", m |-> Callback("panic", 0, {}, "")]

NoStep == [m |-> Callback("none", 0, {}, ""), out |-> <<>>]

\* ------------------------------------------------------------- registry (link.rs)
\* Mutant: the handles' fields instead of the keys.
registered_handles(r) == {field_links[r][k] : k \in DOMAIN field_links[r]}

registered_fields(r) == DOMAIN field_links[r]

form_is_registered(r) == form_link[r] # NoForm

field_is_registered(r, k) == k \in DOMAIN field_links[r]

\* Mutant: a form handle already registered is kept.
register_form_once(r, f) ==
    [form_link EXCEPT ![r] = IF @ = NoForm THEN f ELSE @]

register_form(r, f) == [form_link EXCEPT ![r] = f]

\* Mutant: a handle already stored under the key is kept.
register_field_keep(r, k, i) == [field_links EXCEPT ![r] = @ @@ (k :> i)]

register_field(r, k, i) == [field_links EXCEPT ![r] = (k :> i) @@ field_links[r]]

\* The two shared cells (Rc pointers) of a FormFieldLink value: new() allocates
\* both, clone() copies both, so every value of registry r holds the cells of r.
Ptrs(h) == [form_link |-> h, field_links |-> h]

\* Mutant: equality of the contents of the cells.
FormFieldLinkSameContents(a, b) ==
    form_link[a] = form_link[b] /\ field_links[a] = field_links[b]

\* PartialEq for FormFieldLink: Rc::ptr_eq on both cells.
FormFieldLinkEq(a, b) ==
    Ptrs(a).form_link = Ptrs(b).form_link /\ Ptrs(a).field_links = Ptrs(b).field_links

\* The orders in which an iteration over a HashMap with key set S may run.
Orders(S) ==
    {s \in [1..Cardinality(S) -> S] :
        \A a, b \in 1..Cardinality(S) : a # b => s[a] # s[b]}

\* Mutant: the iteration misses the first handle.
send_all_but_first(r, type, order) ==
    [n \in 1..(Len(order) - 1) |-> FieldMsg(field_links[r][order[n + 1]], type)]

\* send_all_fields_message: one message to each registered handle, in map order.
send_all_fields_message(r, type, order) ==
    [n \in 1..Len(order) |-> FieldMsg(field_links[r][order[n]], type)]

\* Mutant: a key that is not registered is skipped silently.
send_field_message_or_skip(r, k, type) ==
    IF field_is_registered(r, k)
    THEN <<Sent(FieldMsg(field_links[r][k], type))>>
    ELSE <<>>

\* send_field_message: the message goes to the handle stored under the key; a
\* panic when the key is not registered.
send_field_message(r, k, type) ==
    IF field_is_registered(r, k)
    THEN <<Sent(FieldMsg(field_links[r][k], type))>>
    ELSE <<Panic>>

\* Mutant: without a form handle the message is dropped.
send_form_message_or_drop(r, type, key, errs) ==
    IF form_is_registered(r)
    THEN <<Sent(FormMsg(form_link[r], type, key, errs))>>
    ELSE <<>>

\* send_form_message: the sequence of effects; a panic when no form is registered.
send_form_message(r, type, key, errs) ==
    IF form_is_registered(r)
    THEN <<Sent(FormMsg(form_link[r], type, key, errs))>>
    ELSE <<Panic>>

\* ------------------------------------------------------------- effects
IsSend(e) == e.kind = "send"
IsEmit(e) == e.kind = "emit"
IsSpawn(e) == e.kind = "spawn"
IsPanic(e) == e.kind = "panic"

RECURSIVE SelectMsgs(_, _)
SelectMsgs(out, kind) ==
    IF out = <<>> THEN <<>>
    ELSE IF Head(out).kind = kind
         THEN <<Head(out).m>> \o SelectMsgs(Tail(out), kind)
         ELSE SelectMsgs(Tail(out), kind)

HasPanic(out) == \E n \in 1..Len(out) : IsPanic(out[n])

\* The effects up to and including the first panic: nothing runs after it.
RECURSIVE UntilPanic(_)
UntilPanic(out) ==
    IF out = <<>> THEN <<>>
    ELSE IF IsPanic(Head(out)) THEN <<Head(out)>>
         ELSE <<Head(out)>> \o UntilPanic(Tail(out))

\* ------------------------------------------------------------- validators
\* Option<Value>: None and Some(v).
None == <<>>
Some(v) == <<v>>

\* What the validators used here look at in an Option<Value>: the value
\* selected, nothing ("") when none is.
OptionText(o) == IF o = None THEN "" ELSE o[1]

\* What they look at in a CheckboxState: a box that is not checked counts as
\* nothing ("").
CheckboxText(c) == IF c = "Checked" THEN "ok" ELSE ""

\* AsyncValidator::validate_value(value, key) of the validators used here:
\* "none" is the default validator (no check), "accept" a validator that
\* accepts every value, "check" one that rejects "" and "x".
validate_value(validator, value, key) ==
    IF validator = "check" /\ value = "" THEN {<<key, "required">>}
    ELSE IF validator = "check" /\ value = "x" THEN {<<key, "invalid">>}
    ELSE {}

\* ------------------------------------------------------------- Form
\* Form::validation_errors(): the union of the error sets of all entries.
FormValidationErrors(ve) == UNION {ve[k] : k \in DOMAIN ve}

\* Mutant: the keys registered when validation was broadcast, not the live ones.
all_validated_snapshot(ve, r) ==
    \A k \in hist[form_link[r]].at_vts : k \in DOMAIN ve

\* Mutant: some registered key has an entry.
some_validated(ve, r) == \E k \in registered_fields(r) : k \in DOMAIN ve

\* Form::all_validated(): every key of the live registry has an entry.
all_validated(ve, r) == \A k \in registered_fields(r) : k \in DOMAIN ve

NoForms ==
    [f \in Forms |->
        [created |-> FALSE, kind |-> "component", validation_errors |-> <<>>,
         validating |-> FALSE, props_form_link |-> "R1", form_link |-> "R1"]]

NoFields ==
    [i \in Fields |->
        [created |-> FALSE, kind |-> "input", value |-> "", validation_errors |-> {},
         display_validation_errors |-> {},
         props |-> [field_key |-> i, form_link |-> "R1", validator |-> "none",
                    validate_on |-> "AnyEvent", update_on |-> "ChangeEvent",
                    validate_on_update |-> TRUE, extra_errors |-> {}],
         form_link |-> "R1", mounted |-> FALSE]]

\* What has been observed so far: per form the messages handled and the
\* notifications emitted, per registry the arguments of the register_field and
\* register_form calls made on it (the keys, the last handle given for each
\* key, the last form handle).
NoHist ==
    [x \in Forms \cup Regs |->
        IF x \in Forms
        THEN [vts |-> 0, submits |-> <<>>, fvu |-> [k \in Keys |-> 0], at_vts |-> {}]
        ELSE [keys |-> {}, last |-> <<>>, form |-> NoForm]]

\* A call register_field(handle of field i with key k) on registry r is noted.
FieldRegistered(h, r, k, i) ==
    [h EXCEPT ![r].keys = @ \cup {k}, ![r].last = (k :> i) @@ @]

\* A call register_form(handle of form f) on registry r is noted.
FormRegistered(h, r, f) == [h EXCEPT ![r].form = f]

Init ==
    /\ field_links = [r \in Regs |-> <<>>]
    /\ form_link = [r \in Regs |-> NoForm]
    /\ form = NoForms
    /\ field = NoFields
    /\ queue = <<>>
    /\ futures = [i \in Fields |-> <<>>]
    /\ panicked = FALSE
    /\ step = NoStep
    /\ hist = NoHist
    /\ events = 0

\* The message at the head of the queue is for form f and of this type.
FormHandles(f, type) ==
    /\ ~panicked
    /\ queue # <<>>
    /\ Head(queue).dest = "form"
    /\ Head(queue).form = f
    /\ Head(queue).type = type

\* The message at the head of the queue is for field i, which is mounted, and
\* of this type.
FieldHandles(i, type) ==
    /\ ~panicked
    /\ queue # <<>>
    /\ Head(queue).dest = "field"
    /\ Head(queue).field = i
    /\ Head(queue).type = type
    /\ field[i].mounted

\* What every handler does with its effects: the messages sent join the queue,
\* the step is recorded.
Handled(out) ==
    /\ queue' = Tail(queue) \o SelectMsgs(out, "send")
    /\ panicked' = HasPanic(out)
    /\ step' = [m |-> Head(queue), out |-> out]

\* Form::create
FormCreate(f, r, kind) ==
    /\ ~panicked
    /\ ~form[f].created
    /\ form_link' = register_form(r, f)
    /\ form' = [form EXCEPT ![f] =
                    [created |-> TRUE, kind |-> kind, validation_errors |-> <<>>,
                     validating |-> FALSE, props_form_link |-> r, form_link |-> r]]
    /\ hist' = FormRegistered(hist, r, f)
    /\ step' = NoStep
    /\ UNCHANGED <<field_links, field, queue, futures, panicked, events>>

\* Mutant: the value update is answered with a validation-updated notification.
FieldValueUpdateNotifies(ve) ==
    <<Emitted(Callback("onvalidateupdate", 0, FormValidationErrors(ve), ""))>>

\* What FormMsg::FieldValueUpdate emits and sends: nothing, the arm is `true`.
FieldValueUpdateEffects(ve) == <<>>

\* Form::update, FormMsg::FieldValueUpdate
FormFieldValueUpdate(f) ==
    /\ FormHandles(f, "FieldValueUpdate")
    /\ Handled(FieldValueUpdateEffects(form[f].validation_errors))
    /\ UNCHANGED <<field_links, form_link, form, field, futures, hist, events>>

\* Form::update, FormMsg::ValidateThenSubmit
FormValidateThenSubmit(f) ==
    /\ FormHandles(f, "ValidateThenSubmit")
    /\ \E order \in Orders(registered_fields(form[f].props_form_link)) :
        LET started == IF form[f].kind = "component"
                       THEN <<Emitted(Callback("onsubmit_validate_start", 0, {}, ""))>>
                       ELSE <<>>
            sends == send_all_fields_message(form[f].props_form_link, "Validate", order)
        IN  Handled(started \o [n \in 1..Len(sends) |-> Sent(sends[n])])
    /\ form' = [form EXCEPT ![f].validation_errors = <<>>, ![f].validating = TRUE]
    /\ hist' = [hist EXCEPT ![f].vts = @ + 1, ![f].fvu = [k \in Keys |-> 0],
                             ![f].at_vts = registered_fields(form[f].props_form_link)]
    /\ UNCHANGED <<field_links, form_link, field, futures, events>>

\* Mutant: success when the map has no entries, whatever the entries hold.
SubmitResultByEntries(ve) ==
    IF DOMAIN ve = {}
    THEN Callback("onsubmit", 0, {}, "Ok")
    ELSE Callback("onsubmit", 0, FormValidationErrors(ve), "Err")

\* The result Form::update computes for FormMsg::Submit.
SubmitResult(ve) ==
    IF FormValidationErrors(ve) = {}
    THEN Callback("onsubmit", 0, {}, "Ok")
    ELSE Callback("onsubmit", 0, FormValidationErrors(ve), "Err")

\* Mutant: both variants notify only when there are no errors.
SubmitEmitsOnSuccess(kind, ve) ==
    IF FormValidationErrors(ve) = {}
    THEN <<Emitted(Callback("onsubmit", 0, {}, "Ok"))>>
    ELSE <<>>

\* What FormMsg::Submit emits: form_component.rs emits the result, form.rs
\* emits onsubmit(()) only when there are no errors.
SubmitEmits(kind, ve) ==
    IF kind = "component" THEN <<Emitted(SubmitResult(ve))>>
    ELSE IF FormValidationErrors(ve) = {}
         THEN <<Emitted(Callback("onsubmit", 0, {}, "Ok"))>>
         ELSE <<>>

\* Form::update, FormMsg::Submit
FormSubmit(f) ==
    /\ FormHandles(f, "Submit")
    /\ LET out == SubmitEmits(form[f].kind, form[f].validation_errors)
       IN  /\ Handled(out)
           /\ hist' = [hist EXCEPT ![f].submits = @ \o SelectMsgs(out, "emit")]
    /\ UNCHANGED <<field_links, form_link, form, field, futures, events>>

\* Form::update, FormMsg::Cancel (form.rs only)
FormCancel(f) ==
    /\ FormHandles(f, "Cancel")
    /\ form[f].kind = "simple"
    /\ Handled(<<Emitted(Callback("oncancel", 0, {}, ""))>>)
    /\ UNCHANGED <<field_links, form_link, form, field, futures, hist, events>>

\* Mutant: the errors reported are added to those already stored for the key.
MergeErrors(ve, key, errors) ==
    (key :> (IF key \in DOMAIN ve THEN ve[key] \cup errors ELSE errors)) @@ ve

\* Mutant: a report without errors makes no entry.
InsertFailures(ve, key, errors) ==
    IF errors = {} THEN ve ELSE (key :> errors) @@ ve

\* The entry FormMsg::FieldValidationUpdate(key, errors) makes.
InsertErrors(ve, key, errors) == (key :> errors) @@ ve

\* Mutant: the validating flag is not consulted.
SubmitsWhenAllValidated(validating, ve, r) == all_validated(ve, r)

\* Whether the form, having stored ve, goes on to submit.
SubmitsNow(validating, ve, r) == validating /\ all_validated(ve, r)

\* Mutant: Submit is sent before the notification is emitted.
ValidationUpdateEffectsSendFirst(f, kind, submits, ve) ==
    (IF submits THEN <<Sent(FormMsg(f, "Submit", 0, {}))>> ELSE <<>>)
    \o (IF kind = "component"
        THEN <<Emitted(Callback("onvalidateupdate", 0, FormValidationErrors(ve), ""))>>
        ELSE <<>>)

\* What the handler of FieldValidationUpdate emits and sends, given the map
\* after the insert.
ValidationUpdateEffects(f, kind, submits, ve) ==
    (IF kind = "component"
     THEN <<Emitted(Callback("onvalidateupdate", 0, FormValidationErrors(ve), ""))>>
     ELSE <<>>)
    \o (IF submits THEN <<Sent(FormMsg(f, "Submit", 0, {}))>> ELSE <<>>)

\* Form::update, FormMsg::FieldValidationUpdate
FormFieldValidationUpdate(f) ==
    /\ FormHandles(f, "FieldValidationUpdate")
    /\ LET m == Head(queue)
           ve == InsertErrors(form[f].validation_errors, m.key, m.errs)
           submits == SubmitsNow(form[f].validating, ve, form[f].props_form_link)
       IN  /\ form' = [form EXCEPT ![f].validation_errors = ve,
                                   ![f].validating = IF submits THEN FALSE ELSE @]
           /\ Handled(ValidationUpdateEffects(f, form[f].kind, submits, ve))
           /\ hist' = [hist EXCEPT ![f].fvu[m.key] = @ + 1]
    /\ UNCHANGED <<field_links, form_link, field, futures, events>>

\* Mutant: a form given another registry registers there whatever it holds.
form_registers_always(old, new) == ~FormFieldLinkEq(old, new)

\* Form::change: whether the form, on registry old, registers on registry new.
form_registers(old, new) == ~FormFieldLinkEq(old, new) /\ ~form_is_registered(new)

\* Form::change with properties whose form_link is r; the parent's re-render
\* that brings them is an event of the environment.
FormChange(f, r) ==
    /\ ~panicked
    /\ form[f].created
    /\ events < MaxEvents
    /\ events' = events + 1
    /\ LET differs == ~FormFieldLinkEq(form[f].form_link, r)
           registers == form_registers(form[f].form_link, r)
       IN  /\ form_link' = IF registers THEN register_form(r, f) ELSE form_link
           /\ hist' = IF registers THEN FormRegistered(hist, r, f) ELSE hist
           /\ form' = [form EXCEPT ![f].form_link = IF differs THEN r ELSE @,
                                   ![f].props_form_link = r]
    /\ step' = NoStep
    /\ UNCHANGED <<field_links, field, queue, futures, panicked>>

\* ------------------------------------------------------------- InputField
\* InputField::create
FieldCreate(i, key, r, validator, validate_on, update_on, extra) ==
    /\ ~panicked
    /\ ~field[i].created
    /\ field_links' = register_field(r, key, i)
    /\ field' = [field EXCEPT ![i] =
                    [created |-> TRUE, kind |-> "input", value |-> "",
                     validation_errors |-> {},
                     display_validation_errors |-> extra,
                     props |-> [field_key |-> key, form_link |-> r,
                                validator |-> validator, validate_on |-> validate_on,
                                update_on |-> update_on, validate_on_update |-> TRUE,
                                extra_errors |-> extra],
                     form_link |-> r, mounted |-> TRUE]]
    /\ hist' = FieldRegistered(hist, r, key, i)
    /\ step' = NoStep
    /\ UNCHANGED <<form_link, form, queue, futures, panicked, events>>

\* validate_future: the result of the validator on the value and key the field
\* has when the validation starts.
validate_future(fd) ==
    validate_value(fd.props.validator,
                   IF fd.kind = "input" THEN fd.value
                   ELSE IF fd.kind = "checkbox" THEN CheckboxText(fd.value)
                   ELSE OptionText(fd.value),
                   fd.props.field_key)

\* Mutant: every setting but None validates on every accepted Update.
ValidatesUnlessNone(validate_on, src) == validate_on # "None"

\* Whether an accepted Update goes on to validate.
ValidatesOnUpdate(validate_on, src) ==
    \/ validate_on = "AnyEvent"
    \/ validate_on = "ChangeEvent" /\ src = "ChangeEvent"

\* Mutant: the form is told before the value-updated callback is emitted.
UpdateEffectsFormFirst(fd, i, val, src) ==
    UntilPanic(
        send_form_message(fd.form_link, "FieldValueUpdate", fd.props.field_key, {})
        \o <<Emitted(Callback("onupdate", fd.props.field_key, {}, val))>>
        \o (IF ValidatesOnUpdate(fd.props.validate_on, src)
            THEN <<Spawned(i, validate_future([fd EXCEPT !.value = val]))>>
            ELSE <<>>))

\* The effects of an Update that changes the value, in the handler's order.
UpdateEffects(fd, i, val, src) ==
    UntilPanic(
        <<Emitted(Callback("onupdate", fd.props.field_key, {}, val))>>
        \o send_form_message(fd.form_link, "FieldValueUpdate", fd.props.field_key, {})
        \o (IF ValidatesOnUpdate(fd.props.validate_on, src)
            THEN <<Spawned(i, validate_future([fd EXCEPT !.value = val]))>>
            ELSE <<>>))

SpawnedResults(out) ==
    LET ms == SelectMsgs(out, "spawn") IN [n \in 1..Len(ms) |-> ms[n].errs]

\* InputField::update, InputFieldMsg::Update
FieldUpdate(i) ==
    /\ FieldHandles(i, "Update")
    /\ field[i].kind = "input"
    /\ LET m == Head(queue)
           changed == m.val # field[i].value
           out == IF changed THEN UpdateEffects(field[i], i, m.val, m.src) ELSE <<>>
       IN  /\ field' = [field EXCEPT ![i].value = m.val]
           /\ futures' = [futures EXCEPT ![i] = @ \o SpawnedResults(out)]
           /\ Handled(out)
    /\ UNCHANGED <<field_links, form_link, form, hist, events>>

\* InputField::update, InputFieldMsg::Validate
FieldValidate(i) ==
    /\ FieldHandles(i, "Validate")
    /\ futures' = [futures EXCEPT ![i] = Append(@, validate_future(field[i]))]
    /\ Handled(<<Spawned(i, validate_future(field[i]))>>)
    /\ UNCHANGED <<field_links, form_link, form, field, hist, events>>

\* Mutant: the field reports the errors it displays.
displayed_errors(validation_errors, extra_errors) == validation_errors \cup extra_errors

\* The errors a field reports to the form: a clone of its validation_errors.
reported_errors(validation_errors, extra_errors) == validation_errors

\* InputField::update, InputFieldMsg::SetValidationErrors; the ValidationErrors
\* arm of the select, multi-value and checkbox fields is the same.
FieldSetValidationErrors(i) ==
    /\ FieldHandles(i, "SetValidationErrors")
    /\ LET errors == Head(queue).errs
       IN  /\ field' = [field EXCEPT
                   ![i].validation_errors = errors,
                   ![i].display_validation_errors = errors \cup field[i].props.extra_errors]
           /\ Handled(send_form_message(field[i].form_link, "FieldValidationUpdate",
                                        field[i].props.field_key,
                                        reported_errors(errors, field[i].props.extra_errors)))
    /\ UNCHANGED <<field_links, form_link, form, futures, hist, events>>

\* InputField::update, InputFieldMsg::ClearValidationErrors
FieldClearValidationErrors(i) ==
    /\ FieldHandles(i, "ClearValidationErrors")
    /\ field[i].kind \in {"input", "select", "multi_value"}
    /\ field' = [field EXCEPT
            ![i].validation_errors = {},
            ![i].display_validation_errors = field[i].props.extra_errors]
    /\ Handled(send_form_message(field[i].form_link, "FieldValidationUpdate",
                                 field[i].props.field_key,
                                 reported_errors({}, field[i].props.extra_errors)))
    /\ UNCHANGED <<field_links, form_link, form, futures, hist, events>>

\* ------------------------------------------------------------- SelectField, MultiValueField
\* SelectField::create and MultiValueField::create (kind "select" and
\* "multi_value"): the value starts as the `selected` property.
ValuedFieldCreate(i, kind, key, r, validator, selected, validate_on_update, extra) ==
    /\ ~panicked
    /\ ~field[i].created
    /\ field_links' = register_field(r, key, i)
    /\ field' = [field EXCEPT ![i] =
                    [created |-> TRUE, kind |-> kind, value |-> selected,
                     validation_errors |-> {},
                     display_validation_errors |-> extra,
                     props |-> [field_key |-> key, form_link |-> r,
                                validator |-> validator, validate_on |-> "AnyEvent",
                                update_on |-> "ChangeEvent",
                                validate_on_update |-> validate_on_update,
                                extra_errors |-> extra],
                     form_link |-> r, mounted |-> TRUE]]
    /\ hist' = FieldRegistered(hist, r, key, i)
    /\ step' = NoStep
    /\ UNCHANGED <<form_link, form, queue, futures, panicked, events>>

\* The effects of Update(value) in select_field.rs and multi_value_field.rs:
\* the callback, the message to the form (through the registry of the
\* properties), the validation; the stored value is not looked at.
ValuedUpdateEffects(fd, i, val) ==
    UntilPanic(
        <<Emitted(Callback("onupdate", fd.props.field_key, {}, val))>>
        \o send_form_message(fd.props.form_link, "FieldValueUpdate",
                             fd.props.field_key, {})
        \o <<Spawned(i, validate_future([fd EXCEPT !.value = Some(val)]))>>)

\* SelectField::update and MultiValueField::update, Update(value)
ValuedFieldUpdate(i, kind) ==
    /\ FieldHandles(i, "Update")
    /\ field[i].kind = kind
    /\ kind \in {"select", "multi_value"}
    /\ LET out == ValuedUpdateEffects(field[i], i, Head(queue).val)
       IN  /\ field' = [field EXCEPT ![i].value = Some(Head(queue).val)]
           /\ futures' = [futures EXCEPT ![i] = @ \o SpawnedResults(out)]
           /\ Handled(out)
    /\ UNCHANGED <<field_links, form_link, form, hist, events>>

\* ------------------------------------------------------------- Select
\* The width of usize, scaled down.
UsizeBits == 8

\* `value as usize` for the i32 that selected_index() returns.
as_usize(n) == n % (2 ^ UsizeBits)

\* The options property of the Select of field i: the first i of these.
options(i) == SubSeq(<<"ok", "x", "">>, 1, i)

\* options.get(idx - 1): the position looked up, or no position when the
\* subtraction overflows in a build that checks for it.
get_position(idx, overflow_checks) ==
    IF idx = 0
    THEN IF overflow_checks THEN None ELSE Some(2 ^ UsizeBits - 1)
    ELSE Some(idx - 1)

\* What Select::update does for Selected(Some(idx)): the item at idx - 1, if
\* there is one, goes to onchange, which is SelectFieldMsg::Update of the field.
SelectedEffects(i, idx, overflow_checks) ==
    LET pos == get_position(idx, overflow_checks)
    IN  IF pos = None THEN <<Panic>>
        ELSE IF pos[1] < Len(options(i))
             THEN <<Emitted(Callback("onchange", 0, {}, options(i)[pos[1] + 1])),
                    Sent(InputFieldMsg(i, "Update", {}, options(i)[pos[1] + 1], "ChangeEvent"))>>
             ELSE <<>>

\* The message at the head of the queue is Selected for the Select of field i.
SelectHandles(i) ==
    /\ ~panicked
    /\ queue # <<>>
    /\ Head(queue).dest = "select"
    /\ Head(queue).field = i

\* Select::update, Msg::Selected; whether the subtraction is checked depends
\* on the build.
SelectUpdate(i) ==
    /\ SelectHandles(i)
    /\ \E overflow_checks \in BOOLEAN :
        Handled(SelectedEffects(i, Head(queue).key, overflow_checks))
    /\ UNCHANGED <<field_links, form_link, form, field, futures, hist, events>>

\* ------------------------------------------------------------- CheckboxField
\* Mutant: a checkbox once checked stays checked.
set_checked(c) == "Checked"

\* CheckboxState::toggle
toggle(c) == IF c = "Checked" THEN "Unchecked" ELSE "Checked"

\* CheckboxField::create
CheckboxFieldCreate(i, key, r, validator, initial_state, validate_on_update, extra) ==
    /\ ~panicked
    /\ ~field[i].created
    /\ field_links' = register_field(r, key, i)
    /\ field' = [field EXCEPT ![i] =
                    [created |-> TRUE, kind |-> "checkbox", value |-> initial_state,
                     validation_errors |-> {},
                     display_validation_errors |-> extra,
                     props |-> [field_key |-> key, form_link |-> r,
                                validator |-> validator, validate_on |-> "AnyEvent",
                                update_on |-> "ChangeEvent",
                                validate_on_update |-> validate_on_update,
                                extra_errors |-> extra],
                     form_link |-> r, mounted |-> TRUE]]
    /\ hist' = FieldRegistered(hist, r, key, i)
    /\ step' = NoStep
    /\ UNCHANGED <<form_link, form, queue, futures, panicked, events>>

\* The effects of CheckboxFieldMsg::Update, given the toggled state.
CheckboxUpdateEffects(fd, i, state) ==
    UntilPanic(
        <<Emitted(Callback("onchange", fd.props.field_key, {}, state))>>
        \o send_form_message(fd.form_link, "FieldValueUpdate", fd.props.field_key, {})
        \o (IF fd.props.validate_on_update
            THEN <<Spawned(i, validate_future([fd EXCEPT !.value = state]))>>
            ELSE <<>>))

\* CheckboxField::update, CheckboxFieldMsg::Update
CheckboxFieldUpdate(i) ==
    /\ FieldHandles(i, "Update")
    /\ field[i].kind = "checkbox"
    /\ LET state == toggle(field[i].value)
           out == CheckboxUpdateEffects(field[i], i, state)
       IN  /\ field' = [field EXCEPT ![i].value = state]
           /\ futures' = [futures EXCEPT ![i] = @ \o SpawnedResults(out)]
           /\ Handled(out)
    /\ UNCHANGED <<field_links, form_link, form, hist, events>>

\* FieldMsg::ClearValidationErrors at a checkbox field: CheckboxFieldMsg has no
\* such variant and the conversion from FieldMsg no arm for it, so the field
\* does nothing with the message, or the conversion fails.
CheckboxFieldClearValidationErrors(i) ==
    /\ FieldHandles(i, "ClearValidationErrors")
    /\ field[i].kind = "checkbox"
    /\ \E out \in {<<>>, <<Panic>>} : Handled(out)
    /\ UNCHANGED <<field_links, form_link, form, field, futures, hist, events>>

\* neq_assign_field: whether the change of properties registers the field.
Registers(old, new) ==
    /\ old # new
    /\ ~FormFieldLinkEq(old.form_link, new.form_link)
    /\ ~field_is_registered(new.form_link, new.field_key)

\* Mutant: the field leaves the registry it was on.
neq_assign_field_moves(old, new, i) ==
    IF Registers(old, new)
    THEN [register_field(new.form_link, new.field_key, i) EXCEPT
            ![old.form_link] =
                [k \in DOMAIN field_links[old.form_link] \ {old.field_key} |->
                    field_links[old.form_link][k]]]
    ELSE field_links

\* Mutant: a field given another registry registers there whatever it holds.
neq_assign_field_overwrites(old, new, i) ==
    IF old # new /\ ~FormFieldLinkEq(old.form_link, new.form_link)
    THEN register_field(new.form_link, new.field_key, i)
    ELSE field_links

\* neq_assign_field: the registry cells after the change of properties.
neq_assign_field(old, new, i) ==
    IF Registers(old, new)
    THEN register_field(new.form_link, new.field_key, i)
    ELSE field_links

\* Mutant: other extra_errors make the field validate again.
change_revalidates(fd, i, props) ==
    IF fd.props.extra_errors # props.extra_errors
    THEN <<Spawned(i, validate_future(fd))>>
    ELSE <<>>

\* The messages `change` sends and the validations it starts, in every field:
\* none.
change_effects(fd, i, props) == <<>>

\* Mutant: the change of properties leaves the displayed errors alone.
kept_display_errors(fd, props) == fd.display_validation_errors

\* InputField::change: the displayed errors when the properties become props.
changed_display_errors(fd, props) ==
    IF fd.props.extra_errors # props.extra_errors
    THEN fd.validation_errors \cup props.extra_errors
    ELSE fd.display_validation_errors

\* InputField::change
FieldChange(i, props) ==
    /\ ~panicked
    /\ field[i].created
    /\ field[i].kind = "input"
    /\ events < MaxEvents
    /\ events' = events + 1
    /\ field_links' = neq_assign_field(field[i].props, props, i)
    /\ hist' = IF Registers(field[i].props, props)
               THEN FieldRegistered(hist, props.form_link, props.field_key, i)
               ELSE hist
    /\ field' = [field EXCEPT
            ![i].props = props,
            ![i].display_validation_errors = changed_display_errors(field[i], props)]
    /\ futures' = [futures EXCEPT
            ![i] = @ \o SpawnedResults(change_effects(field[i], i, props))]
    /\ step' = NoStep
    /\ UNCHANGED <<form_link, form, queue, panicked>>

\* SelectField::change and MultiValueField::change: neq_assign_field only.
ValuedFieldChange(i, props) ==
    /\ ~panicked
    /\ field[i].created
    /\ field[i].kind \in {"select", "multi_value"}
    /\ events < MaxEvents
    /\ events' = events + 1
    /\ field_links' = neq_assign_field(field[i].props, props, i)
    /\ hist' = IF Registers(field[i].props, props)
               THEN FieldRegistered(hist, props.form_link, props.field_key, i)
               ELSE hist
    /\ field' = [field EXCEPT ![i].props = props]
    /\ futures' = [futures EXCEPT
            ![i] = @ \o SpawnedResults(change_effects(field[i], i, props))]
    /\ step' = NoStep
    /\ UNCHANGED <<form_link, form, queue, panicked>>

\* CheckboxField::change: new extra errors are added to validation_errors.
CheckboxFieldChange(i, props) ==
    /\ ~panicked
    /\ field[i].created
    /\ field[i].kind = "checkbox"
    /\ events < MaxEvents
    /\ events' = events + 1
    /\ field_links' = neq_assign_field(field[i].props, props, i)
    /\ hist' = IF Registers(field[i].props, props)
               THEN FieldRegistered(hist, props.form_link, props.field_key, i)
               ELSE hist
    /\ field' = [field EXCEPT
            ![i].props = props,
            ![i].validation_errors =
                IF field[i].props.extra_errors # props.extra_errors
                THEN @ \cup props.extra_errors
                ELSE @]
    /\ futures' = [futures EXCEPT
            ![i] = @ \o SpawnedResults(change_effects(field[i], i, props))]
    /\ step' = NoStep
    /\ UNCHANGED <<form_link, form, queue, panicked>>

\* ------------------------------------------------------------- host and environment
\* A validation in flight completes: send_future delivers its message.
FutureCompletes(i) ==
    /\ ~panicked
    /\ queue = <<>>
    /\ \E n \in 1..Len(futures[i]) :
        /\ queue' = Append(queue, InputFieldMsg(i, "SetValidationErrors", futures[i][n], "", ""))
        /\ futures' = [futures EXCEPT
                ![i] = SubSeq(@, 1, n - 1) \o SubSeq(@, n + 1, Len(@))]
    /\ step' = NoStep
    /\ UNCHANGED <<field_links, form_link, form, field, panicked, hist, events>>

\* The host unmounts field i: the component is dropped. No field implements
\* destroy, so nothing is taken out of the registry, and a validation in flight
\* still completes.
FieldUnmount(i) ==
    /\ ~panicked
    /\ field[i].created
    /\ field[i].mounted
    /\ field' = [field EXCEPT ![i].mounted = FALSE]
    /\ step' = NoStep
    /\ UNCHANGED <<field_links, form_link, form, queue, futures, panicked, hist, events>>

\* A message for a field that is no longer mounted is not processed.
FieldDrops(i) ==
    /\ ~panicked
    /\ queue # <<>>
    /\ Head(queue).dest = "field"
    /\ Head(queue).field = i
    /\ field[i].created
    /\ ~field[i].mounted
    /\ Handled(<<>>)
    /\ UNCHANGED <<field_links, form_link, form, field, futures, hist, events>>

EnvironmentSends(m) ==
    /\ ~panicked
    /\ events < MaxEvents
    /\ events' = events + 1
    /\ queue' = Append(queue, m)
    /\ step' = NoStep
    /\ UNCHANGED <<field_links, form_link, form, field, futures, panicked, hist>>

\* FormMsg::ValidateThenSubmit reaches the form: from its submit event
\* (form_component.rs view), its submit button (form.rs view), or the application
\* through send_form_message.
SubmitRequested(f) ==
    /\ form[f].created
    /\ EnvironmentSends(FormMsg(f, "ValidateThenSubmit", 0, {}))

\* The cancel button of form.rs.
CancelRequested(f) ==
    /\ form[f].created
    /\ form[f].kind = "simple"
    /\ EnvironmentSends(FormMsg(f, "Cancel", 0, {}))

\* The input's onchange and oninput events (InputField::view).
InputEvent(i, val, src) ==
    /\ field[i].created
    /\ field[i].kind = "input"
    /\ queue = <<>>
    /\ src = "InputEvent" => field[i].props.update_on = "InputAndChangeEvent"
    /\ EnvironmentSends(InputFieldMsg(i, "Update", {}, val, src))

\* The change event of the <select> (select_field.rs view) and of a radio
\* button (radio_field.rs onchange_value): Update with the option chosen.
ChoiceEvent(i, val) ==
    /\ field[i].created
    /\ field[i].kind \in {"select", "multi_value"}
    /\ queue = <<>>
    /\ EnvironmentSends(InputFieldMsg(i, "Update", {}, val, "ChangeEvent"))

\* The change event of the <select> element (Select::onchange): Selected with
\* the selected index (-1 for none, 0 for the placeholder) as usize.
SelectedEvent(i, idx) ==
    /\ field[i].created
    /\ field[i].kind = "select"
    /\ queue = <<>>
    /\ EnvironmentSends(Msg("select", NoForm, i, "Selected", as_usize(idx), {}, "", ""))

\* The change event of the checkbox (checkbox_field.rs view): Update.
CheckboxEvent(i) ==
    /\ field[i].created
    /\ field[i].kind = "checkbox"
    /\ queue = <<>>
    /\ EnvironmentSends(InputFieldMsg(i, "Update", {}, "", "ChangeEvent"))

\* The application calls a send_* function of registry r (with key k, where it
\* takes one): the messages sent join the queue, a panic ends the program.
AppCalls(name, r, k, out) ==
    /\ ~panicked
    /\ events < MaxEvents
    /\ events' = events + 1
    /\ queue' = queue \o SelectMsgs(out, "send")
    /\ panicked' = HasPanic(out)
    /\ step' = [m |-> Callback(name, k, {}, r), out |-> out]
    /\ UNCHANGED <<field_links, form_link, form, field, futures, hist>>

\* The application broadcasts FieldMsg::ClearValidationErrors through the registry.
ClearRequested(r) ==
    /\ registered_fields(r) # {}
    /\ \E order \in Orders(registered_fields(r)) :
        LET sends == send_all_fields_message(r, "ClearValidationErrors", order)
        IN  AppCalls("send_all_fields_message", r, 0,
                     [n \in 1..Len(sends) |-> Sent(sends[n])])

\* The application calls send_field_message(key, msg) on registry r.
SendFieldRequested(r, k, type) ==
    AppCalls("send_field_message", r, k, send_field_message(r, k, type))

\* The application calls send_form_message(msg) on registry r.
FormMessageRequested(r, type) ==
    AppCalls("send_form_message", r, 0, send_form_message(r, type, 0, {}))

\* ------------------------------------------------------------- specification
Handle ==
    \/ \E f \in Forms :
        \/ FormFieldValueUpdate(f)
        \/ FormValidateThenSubmit(f)
        \/ FormSubmit(f)
        \/ FormCancel(f)
        \/ FormFieldValidationUpdate(f)
    \/ \E i \in Fields :
        \/ FieldUpdate(i)
        \/ FieldValidate(i)
        \/ FieldSetValidationErrors(i)
        \/ FieldClearValidationErrors(i)
        \/ FutureCompletes(i)

Next ==
    \/ \E kind \in {"component", "simple"} : FormCreate("F1", "R1", kind)
    \/ \E i \in Fields : FieldCreate(i, i, "R1", "check", "AnyEvent", "ChangeEvent", {})
    \/ SubmitRequested("F1")
    \/ CancelRequested("F1")
    \/ \E i \in Fields, val \in Values : InputEvent(i, val, "ChangeEvent")
    \/ ClearRequested("R1")
    \/ FormMessageRequested("R1", "ValidateThenSubmit")
    \/ Handle

Spec == Init /\ [][Next]_vars

\* ------------------------------------------------------------- round trip
\* One form on R1 and any number of fields whose validator is unset (it always
\* returns no errors); all fields register before the single ValidateThenSubmit.
RoundTripHandle ==
    \/ \E f \in Forms :
        \/ FormValidateThenSubmit(f)
        \/ FormSubmit(f)
        \/ FormFieldValidationUpdate(f)
    \/ \E i \in Fields :
        \/ FieldValidate(i)
        \/ FieldSetValidationErrors(i)
        \/ FutureCompletes(i)

RoundTripNext ==
    \/ \E kind \in {"component", "simple"} : FormCreate("F1", "R1", kind)
    \/ \E i \in Fields, validator \in {"none", "accept"} :
        /\ events = 0
        /\ FieldCreate(i, i, "R1", validator, "AnyEvent", "ChangeEvent", {})
    \/ /\ events = 0
       /\ SubmitRequested("F1")
    \/ RoundTripHandle

RoundTrip == Init /\ [][RoundTripNext]_vars

\* The scheduler runs a queued message, and a future in flight completes.
RoundTripFair == RoundTrip /\ WF_vars(RoundTripHandle)

\* ------------------------------------------------------------- registration
\* Forms and fields come and go between the registries: any form on any
\* registry, any field under any key on any registry, changes of properties,
\* and the application's calls of the registry.
RegistrationHandle ==
    \/ \E f \in Forms :
        \/ FormSubmit(f)
        \/ FormFieldValidationUpdate(f)
    \/ \E i \in Fields : FieldClearValidationErrors(i)

RegistrationNext ==
    \/ \E f \in Forms, r \in Regs : queue = <<>> /\ FormCreate(f, r, "component")
    \/ \E f \in Forms, r \in Regs : queue = <<>> /\ FormChange(f, r)
    \/ \E i \in Fields, k \in Keys, r \in Regs :
        queue = <<>> /\ FieldCreate(i, k, r, "check", "AnyEvent", "ChangeEvent", {})
    \/ \E i \in Fields, k \in Keys, r \in Regs :
        /\ queue = <<>>
        /\ FieldChange(i, [field[i].props EXCEPT !.field_key = k, !.form_link = r])
    \/ \E r \in Regs, k \in Keys : SendFieldRequested(r, k, "ClearValidationErrors")
    \/ \E r \in Regs : FormMessageRequested(r, "Submit")
    \/ \E r \in Regs : ClearRequested(r)
    \/ RegistrationHandle

Registration == Init /\ [][RegistrationNext]_vars

\* Forms that are given another registry, and then validate and submit: forms
\* and input fields on either registry, created and changed between messages.
ReparentHandle ==
    \/ \E f \in Forms :
        \/ FormValidateThenSubmit(f)
        \/ FormFieldValidationUpdate(f)
        \/ FormSubmit(f)
    \/ \E i \in Fields :
        \/ FieldValidate(i)
        \/ FieldSetValidationErrors(i)
        \/ FutureCompletes(i)

ReparentNext ==
    \/ \E f \in Forms, r \in Regs : queue = <<>> /\ FormCreate(f, r, "component")
    \/ \E f \in Forms, r \in Regs : queue = <<>> /\ FormChange(f, r)
    \/ \E i \in Fields, r \in Regs :
        queue = <<>> /\ FieldCreate(i, i, r, "check", "AnyEvent", "ChangeEvent", {})
    \/ \E f \in Forms : queue = <<>> /\ SubmitRequested(f)
    \/ ReparentHandle

Reparent == Init /\ [][ReparentNext]_vars

\* ------------------------------------------------------------- controls
\* One form on R1 and fields of the three kinds of control whose Update
\* carries a value, fed by change events.
ControlsHandle ==
    \/ FormFieldValueUpdate("F1")
    \/ FormFieldValidationUpdate("F1")
    \/ \E i \in Fields :
        \/ FieldUpdate(i)
        \/ ValuedFieldUpdate(i, "select")
        \/ ValuedFieldUpdate(i, "multi_value")
        \/ CheckboxFieldUpdate(i)
        \/ FieldSetValidationErrors(i)
        \/ FutureCompletes(i)

ControlsNext ==
    \/ FormCreate("F1", "R1", "component")
    \/ \E i \in Fields : FieldCreate(i, i, "R1", "check", "AnyEvent", "ChangeEvent", {})
    \/ \E i \in Fields, kind \in {"select", "multi_value"}, selected \in {None, Some("ok")},
          validate_on_update \in BOOLEAN :
        ValuedFieldCreate(i, kind, i, "R1", "check", selected, validate_on_update, {})
    \/ \E i \in Fields, validate_on_update \in BOOLEAN :
        CheckboxFieldCreate(i, i, "R1", "check", "Unchecked", validate_on_update, {})
    \/ \E i \in Fields, val \in Values : InputEvent(i, val, "ChangeEvent")
    \/ \E i \in Fields, val \in Values : ChoiceEvent(i, val)
    \/ \E i \in Fields : CheckboxEvent(i)
    \/ ControlsHandle

Controls == Init /\ [][ControlsNext]_vars

\* The input events of input fields under every validate_on setting: one form
\* on R1, fields that update on both events.
TriggersHandle ==
    \/ FormFieldValueUpdate("F1")
    \/ FormFieldValidationUpdate("F1")
    \/ \E i \in Fields :
        \/ FieldUpdate(i)
        \/ FieldSetValidationErrors(i)
        \/ FutureCompletes(i)

TriggersNext ==
    \/ FormCreate("F1", "R1", "component")
    \/ \E i \in Fields, validate_on \in {"AnyEvent", "ChangeEvent", "None"} :
        FieldCreate(i, i, "R1", "check", validate_on, "InputAndChangeEvent", {})
    \/ \E i \in Fields, val \in Values, src \in {"ChangeEvent", "InputEvent"} :
        InputEvent(i, val, src)
    \/ TriggersHandle

Triggers == Init /\ [][TriggersNext]_vars

\* Select fields on one form and the change events of their <select> elements.
SelectsHandle ==
    \/ FormFieldValueUpdate("F1")
    \/ FormFieldValidationUpdate("F1")
    \/ \E i \in Fields :
        \/ SelectUpdate(i)
        \/ ValuedFieldUpdate(i, "select")
        \/ FieldSetValidationErrors(i)
        \/ FutureCompletes(i)

SelectsNext ==
    \/ FormCreate("F1", "R1", "component")
    \/ \E i \in Fields : ValuedFieldCreate(i, "select", i, "R1", "check", None, TRUE, {})
    \/ \E i \in Fields, idx \in -1..NumFields : SelectedEvent(i, idx)
    \/ SelectsHandle

Selects == Init /\ [][SelectsNext]_vars

\* Fields of every kind on one form, whose errors the application clears by
\* a broadcast through the registry.
ClearsHandle ==
    \/ FormFieldValueUpdate("F1")
    \/ FormFieldValidationUpdate("F1")
    \/ \E i \in Fields :
        \/ FieldUpdate(i)
        \/ CheckboxFieldUpdate(i)
        \/ FieldSetValidationErrors(i)
        \/ FieldClearValidationErrors(i)
        \/ CheckboxFieldClearValidationErrors(i)
        \/ FutureCompletes(i)

ClearsNext ==
    \/ FormCreate("F1", "R1", "component")
    \/ \E i \in Fields :
        \/ FieldCreate(i, i, "R1", "check", "AnyEvent", "ChangeEvent", {})
        \/ ValuedFieldCreate(i, "select", i, "R1", "check", None, TRUE, {})
        \/ ValuedFieldCreate(i, "multi_value", i, "R1", "check", None, TRUE, {})
        \/ CheckboxFieldCreate(i, i, "R1", "check", "Unchecked", TRUE, {})
    \/ \E i \in Fields : InputEvent(i, "x", "ChangeEvent")
    \/ \E i \in Fields : CheckboxEvent(i)
    \/ queue = <<>> /\ ClearRequested("R1")
    \/ ClearsHandle

Clears == Init /\ [][ClearsNext]_vars

\* Checkbox fields, created unchecked on one form, and their change events.
TogglesHandle ==
    \/ FormFieldValueUpdate("F1")
    \/ FormFieldValidationUpdate("F1")
    \/ \E i \in Fields :
        \/ CheckboxFieldUpdate(i)
        \/ FieldSetValidationErrors(i)
        \/ FutureCompletes(i)

TogglesNext ==
    \/ FormCreate("F1", "R1", "component")
    \/ \E i \in Fields, validate_on_update \in BOOLEAN :
        CheckboxFieldCreate(i, i, "R1", "check", "Unchecked", validate_on_update, {})
    \/ \E i \in Fields : CheckboxEvent(i)
    \/ TogglesHandle

Toggles == Init /\ [][TogglesNext]_vars

\* Fields of one form that the host mounts, and unmounts some of, before the
\* form's submissions.
UnmountsHandle ==
    \/ FormValidateThenSubmit("F1")
    \/ FormSubmit("F1")
    \/ FormFieldValidationUpdate("F1")
    \/ \E i \in Fields :
        \/ FieldValidate(i)
        \/ FieldSetValidationErrors(i)
        \/ FieldDrops(i)
        \/ FutureCompletes(i)

UnmountsNext ==
    \/ FormCreate("F1", "R1", "component")
    \/ \E i \in Fields, validator \in {"accept", "check"} :
        /\ events = 0
        /\ FieldCreate(i, i, "R1", validator, "AnyEvent", "ChangeEvent", {})
    \/ \E i \in Fields :
        /\ events = 0
        /\ FieldUnmount(i)
    \/ SubmitRequested("F1")
    \/ UnmountsHandle

Unmounts == Init /\ [][UnmountsNext]_vars

\* The scheduler runs a queued message, and a future in flight completes.
UnmountsFair == Unmounts /\ WF_vars(UnmountsHandle)

\* Fields of one form that are given other keys and registries between the
\* form's submissions.
RekeysHandle ==
    \/ FormValidateThenSubmit("F1")
    \/ FormSubmit("F1")
    \/ FormFieldValidationUpdate("F1")
    \/ \E i \in Fields :
        \/ FieldValidate(i)
        \/ FieldSetValidationErrors(i)
        \/ FutureCompletes(i)

RekeysNext ==
    \/ FormCreate("F1", "R1", "component")
    \/ \E i \in Fields :
        /\ queue = <<>>
        /\ ~form["F1"].validating
        /\ FieldCreate(i, i, "R1", "check", "AnyEvent", "ChangeEvent", {})
    \/ \E i \in Fields, k \in Keys, r \in Regs :
        /\ queue = <<>>
        /\ ~form["F1"].validating
        /\ FieldChange(i, [field[i].props EXCEPT !.field_key = k, !.form_link = r])
    \/ queue = <<>> /\ SubmitRequested("F1")
    \/ RekeysHandle

Rekeys == Init /\ [][RekeysNext]_vars

\* The scheduler runs a queued message, and a future in flight completes.
RekeysFair == Rekeys /\ WF_vars(RekeysHandle)

\* The extra_errors a parent view may hand to field i: none, or one error of
\* its own for the field's key.
ExtraErrors(i) == {{}, {<<i, "extra">>}}

\* Fields of every kind on one form, whose parent re-renders them with other
\* extra_errors and whose errors the application clears.
ChangesHandle ==
    \/ FormFieldValueUpdate("F1")
    \/ FormFieldValidationUpdate("F1")
    \/ \E i \in Fields :
        \/ FieldUpdate(i)
        \/ ValuedFieldUpdate(i, "select")
        \/ ValuedFieldUpdate(i, "multi_value")
        \/ CheckboxFieldUpdate(i)
        \/ FieldSetValidationErrors(i)
        \/ FieldClearValidationErrors(i)
        \/ FutureCompletes(i)

ChangesNext ==
    \/ FormCreate("F1", "R1", "component")
    \/ \E i \in Fields : \E extra \in ExtraErrors(i) :
        \/ FieldCreate(i, i, "R1", "check", "AnyEvent", "ChangeEvent", extra)
        \/ ValuedFieldCreate(i, "select", i, "R1", "check", None, TRUE, extra)
        \/ ValuedFieldCreate(i, "multi_value", i, "R1", "check", None, TRUE, extra)
        \/ CheckboxFieldCreate(i, i, "R1", "check", "Unchecked", TRUE, extra)
    \/ \E i \in Fields : \E extra \in ExtraErrors(i) :
        \/ FieldChange(i, [field[i].props EXCEPT !.extra_errors = extra])
        \/ ValuedFieldChange(i, [field[i].props EXCEPT !.extra_errors = extra])
        \/ CheckboxFieldChange(i, [field[i].props EXCEPT !.extra_errors = extra])
    \/ \E i \in Fields : InputEvent(i, "x", "ChangeEvent")
    \/ \E i \in Fields : ChoiceEvent(i, "x")
    \/ \E i \in Fields : CheckboxEvent(i)
    \/ \E i \in Fields :
        /\ field[i].created
        /\ field[i].kind # "checkbox"
        /\ queue = <<>>
        /\ SendFieldRequested("R1", i, "ClearValidationErrors")
    \/ ChangesHandle

Changes == Init /\ [][ChangesNext]_vars

\* Nothing is queued and no validation is in flight.
Quiescent == queue = <<>> /\ \A i \in Fields : futures[i] = <<>>

\* The submit notifications of f so far, and the reports it got since the last
\* ValidateThenSubmit.
SubmitCount(f) == Len(hist[f].submits)
ReportsSince(f, k) == hist[f].fvu[k]

\* ------------------------------------------------------------- claims

\* C1: after the one ValidateThenSubmit of a round trip with N registered fields
\* whose validators return no errors, once nothing is left to run there has
\* been exactly one submit notification, it carried success, and by then the
\* form had received exactly one FieldValidationUpdate per registered key.
C1_RoundTripSubmitsOnce ==
    (hist["F1"].vts = 1 /\ Quiescent /\ ~panicked) =>
        /\ SubmitCount("F1") = 1
        /\ hist["F1"].submits[1].val = "Ok"
        /\ \A k \in Keys :
            ReportsSince("F1", k) = (IF k \in registered_fields("R1") THEN 1 ELSE 0)

\* C1, with at least one field: the submit notification is never emitted twice,
\* carries success, and comes after one report per registered key.
C1_AtMostOneSubmit ==
    /\ SubmitCount("F1") <= 1
    /\ SubmitCount("F1") = 1 =>
        /\ hist["F1"].submits[1].val = "Ok"
        /\ \A k \in Keys :
            ReportsSince("F1", k) = (IF k \in registered_fields("R1") THEN 1 ELSE 0)

\* C1, with at least one field: the submit notification does come.
C1_EventuallySubmits ==
    (hist["F1"].vts = 1 /\ registered_fields("R1") # {}) ~> (SubmitCount("F1") = 1)

\* C1's failing case: ValidateThenSubmit on a registry without fields.
C1_NoFieldNeverSubmits ==
    (hist["F1"].vts = 1 /\ registered_fields("R1") = {}) =>
        (SubmitCount("F1") = 0 /\ form["F1"].validating)

\* The aggregate of a map of error sets, written out.
Aggregate(ve) == {e \in Keys \X Messages : \E k \in DOMAIN ve : e \in ve[k]}

\* The step just taken handled this type of message for form f.
FormStep(f, type) ==
    step.m.dest = "form" /\ step.m.form = f /\ step.m.type = type

EmitsOf(out, name) ==
    {n \in 1..Len(out) : IsEmit(out[n]) /\ out[n].m.type = name}

SendsOf(out, type) ==
    {n \in 1..Len(out) : IsSend(out[n]) /\ out[n].m.type = type}

\* C2: the result the form emits for Submit is success iff the union of the
\* stored error sets is empty, and otherwise a failure carrying exactly that
\* union: each key contributes exactly the errors stored for it, a key with an
\* empty set nothing.
C2_SubmitResult ==
    \A f \in Forms :
        (FormStep(f, "Submit") /\ form[f].kind = "component") =>
            LET ve == form[f].validation_errors
                r == step.out[1].m
            IN  /\ Len(step.out) = 1
                /\ IsEmit(step.out[1])
                /\ r.type = "onsubmit"
                /\ r.val = "Ok" <=> Aggregate(ve) = {}
                /\ r.val # "Ok" => (r.val = "Err" /\ r.errs = Aggregate(ve))
                /\ r.val # "Ok" =>
                    \A k \in DOMAIN ve : {e \in r.errs : e[1] = k} = ve[k]

\* C2's case: a failure that carries the errors of key 1 and nothing for key 2,
\* whose stored error set is empty.
C2_Witness ==
    /\ FormStep("F1", "Submit")
    /\ form["F1"].kind = "component"
    /\ DOMAIN form["F1"].validation_errors = {1, 2}
    /\ form["F1"].validation_errors[2] = {}
    /\ step.out[1].m.val = "Err"
    /\ step.out[1].m.errs = {<<1, "required">>}

\* C3 as stated: every Submit handled emits exactly one submit notification,
\* in both variants of the form.
C3_AlwaysOneSubmitNotification ==
    \A f \in Forms :
        FormStep(f, "Submit") =>
            Cardinality(EmitsOf(step.out, "onsubmit")) = 1

\* C3 amended: form_component.rs emits exactly one submit notification for
\* every Submit; form.rs emits exactly one when the aggregate is empty and none
\* when it is not.
C3_SubmitNotifications ==
    \A f \in Forms :
        FormStep(f, "Submit") =>
            Cardinality(EmitsOf(step.out, "onsubmit")) =
                (IF form[f].kind = "component" \/ Aggregate(form[f].validation_errors) = {}
                 THEN 1 ELSE 0)

\* C3's case: form_component.rs has handled Submit with errors stored.
C3_Witness ==
    /\ FormStep("F1", "Submit")
    /\ form["F1"].kind = "component"
    /\ Aggregate(form["F1"].validation_errors) # {}
    /\ Cardinality(EmitsOf(step.out, "onsubmit")) = 1

\* C4: handling ValidateThenSubmit leaves validation_errors empty and
\* validating true, sends exactly one Validate to every registered field handle
\* and nothing else, emits validation-started exactly once and no submit
\* notification.
C4_ValidateThenSubmit ==
    \A f \in Forms :
        (FormStep(f, "ValidateThenSubmit") /\ form[f].kind = "component") =>
            LET r == form[f].props_form_link
                validates == SendsOf(step.out, "Validate")
            IN  /\ form[f].validation_errors = <<>>
                /\ form[f].validating
                /\ \A k \in registered_fields(r) :
                    Cardinality({n \in validates :
                        step.out[n].m.dest = "field"
                        /\ step.out[n].m.field = field_links[r][k]}) = 1
                /\ Cardinality(validates) = Cardinality(registered_fields(r))
                /\ Cardinality(EmitsOf(step.out, "onsubmit_validate_start")) = 1
                /\ EmitsOf(step.out, "onsubmit") = {}
                /\ Len(step.out) = 1 + Cardinality(validates)

\* C4's case: ValidateThenSubmit handled with every field registered, and with
\* errors stored before it.
C4_Witness ==
    /\ FormStep("F1", "ValidateThenSubmit")
    /\ form["F1"].kind = "component"
    /\ registered_fields("R1") = Keys
    /\ hist["F1"].vts = 2

\* A step in which form f handles the message at the head of the queue.
FormHandling(f, type) == FormHandles(f, type) /\ step'.m = Head(queue)

SubmitPending(f) ==
    \E n \in 1..Len(queue) : queue[n] = FormMsg(f, "Submit", 0, {})

\* C5 as stated: the submit notification comes in the step that detects 'all
\* validated', so the form handles no other message while a Submit is due.
C5_NothingBeforeSubmit ==
    [][\A f \in Forms :
        \A type \in {"FieldValidationUpdate", "ValidateThenSubmit", "FieldValueUpdate"} :
            FormHandling(f, type) => ~SubmitPending(f)]_vars

\* C5 amended: a FieldValidationUpdate handled while validating after which
\* every registered key has an entry clears validating in that step and appends
\* one Submit message to the queue, behind the messages already queued; the
\* step itself emits no submit notification. Any other FieldValidationUpdate
\* leaves validating as it was and sends no Submit.
C5_DetectionQueuesSubmit ==
    [][\A f \in Forms :
        FormHandling(f, "FieldValidationUpdate") =>
            LET detected ==
                    /\ form[f].validating
                    /\ \A k \in registered_fields(form[f].props_form_link) :
                        k \in DOMAIN form'[f].validation_errors
            IN  /\ detected =>
                    /\ ~form'[f].validating
                    /\ queue' = Append(Tail(queue), FormMsg(f, "Submit", 0, {}))
                    /\ EmitsOf(step'.out, "onsubmit") = {}
                    /\ hist'[f].submits = hist[f].submits
                /\ ~detected =>
                    /\ form'[f].validating = form[f].validating
                    /\ SendsOf(step'.out, "Submit") = {}
                    /\ queue' = Tail(queue)]_vars

\* C5's case: the detecting step has queued Submit behind another message of
\* the form.
C5_Witness ==
    /\ FormStep("F1", "FieldValidationUpdate")
    /\ SendsOf(step.out, "Submit") # {}
    /\ ~form["F1"].validating
    /\ Len(queue) = 2
    /\ queue[1].dest = "form"
    /\ queue[2] = FormMsg("F1", "Submit", 0, {})

\* C6: validating is false before the first ValidateThenSubmit, and while it is
\* true some registered key has no entry in validation_errors.
C6_ValidatingMeansWaiting ==
    \A f \in Forms :
        /\ hist[f].vts = 0 => ~form[f].validating
        /\ form[f].validating =>
            /\ hist[f].vts > 0
            /\ \E k \in registered_fields(form[f].props_form_link) :
                k \notin DOMAIN form[f].validation_errors

\* C6 holds whenever the registry holds a field.
C6_ValidatingWithFields ==
    \A f \in Forms :
        /\ hist[f].vts = 0 => ~form[f].validating
        /\ (form[f].validating /\ registered_fields(form[f].props_form_link) # {}) =>
            /\ hist[f].vts > 0
            /\ \E k \in registered_fields(form[f].props_form_link) :
                k \notin DOMAIN form[f].validation_errors

C8_ReplacesEntry ==
    [][\A f \in Forms :
        FormHandling(f, "FieldValidationUpdate") =>
            LET m == Head(queue)
                old == form[f].validation_errors
                new == form'[f].validation_errors
            IN  /\ DOMAIN new = DOMAIN old \cup {m.key}
                /\ new[m.key] = m.errs
                /\ \A k \in DOMAIN old \ {m.key} : new[k] = old[k]]_vars

\* C8's case: a key that has reported before reports again, with other errors
\* than its field holds from an earlier validation, while another key has an
\* entry.
C8_Witness ==
    /\ FormStep("F1", "FieldValidationUpdate")
    /\ ReportsSince("F1", step.m.key) >= 2
    /\ step.m.errs = {}
    /\ form["F1"].validation_errors[step.m.key] = {}
    /\ \E k \in DOMAIN form["F1"].validation_errors :
        k # step.m.key /\ form["F1"].validation_errors[k] # {}

\* C9: every FieldValidationUpdate handled by form_component.rs emits exactly
\* one validation-updated notification, whose payload is the union of the error
\* sets stored after the insert, before any Submit the same step sends; the
\* step emits no submit notification.
C9_ValidationUpdated ==
    \A f \in Forms :
        (FormStep(f, "FieldValidationUpdate") /\ form[f].kind = "component") =>
            /\ EmitsOf(step.out, "onvalidateupdate") = {1}
            /\ step.out[1].m.errs = Aggregate(form[f].validation_errors)
            /\ \A n \in SendsOf(step.out, "Submit") : n > 1
            /\ EmitsOf(step.out, "onsubmit") = {}

\* C9's case: the notification carries errors and the same step sends Submit.
C9_Witness ==
    /\ FormStep("F1", "FieldValidationUpdate")
    /\ form["F1"].kind = "component"
    /\ step.out[1].m.errs # {}
    /\ SendsOf(step.out, "Submit") = {2}

\* C10: a FieldValidationUpdate handled while validating is false overwrites
\* the key's entry, emits validation-updated (form_component.rs), sends no
\* Submit, emits no submit notification and leaves validating false.
C10_LateReport ==
    [][\A f \in Forms :
        (FormHandling(f, "FieldValidationUpdate") /\ ~form[f].validating) =>
            /\ form'[f].validation_errors[Head(queue).key] = Head(queue).errs
            /\ form[f].kind = "component" =>
                Cardinality(EmitsOf(step'.out, "onvalidateupdate")) = 1
            /\ SendsOf(step'.out, "Submit") = {}
            /\ EmitsOf(step'.out, "onsubmit") = {}
            /\ hist'[f].submits = hist[f].submits
            /\ ~form'[f].validating]_vars

\* C10's case: a report arrives after the cycle has submitted, while every
\* registered key has an entry, and changes the stored errors.
C10_Witness ==
    /\ FormStep("F1", "FieldValidationUpdate")
    /\ hist["F1"].vts = 1
    /\ SubmitCount("F1") = 1
    /\ hist["F1"].submits[1].val = "Err"
    /\ ~form["F1"].validating
    /\ registered_fields("R1") # {}
    /\ all_validated(form["F1"].validation_errors, "R1")
    /\ Aggregate(form["F1"].validation_errors) = {}
    /\ SendsOf(step.out, "Submit") = {}

\* C11: handling FieldValueUpdate(key) leaves validation_errors and validating
\* as they were, sends no message (to a field or to anyone), and emits no
\* submit, validation-updated or validation-started notification.
C11_FieldValueUpdateFrame ==
    [][\A f \in Forms :
        FormHandling(f, "FieldValueUpdate") =>
            /\ form'[f] = form[f]
            /\ step'.out = <<>>
            /\ queue' = Tail(queue)
            /\ hist'[f] = hist[f]
            /\ field_links' = field_links
            /\ form_link' = form_link]_vars

\* C11's case: a value update handled while the form validates and holds
\* errors of an earlier report.
C11_Witness ==
    /\ FormStep("F1", "FieldValueUpdate")
    /\ form["F1"].validating
    /\ Aggregate(form["F1"].validation_errors) # {}

\* The step just taken was the application's call `name` of a registry; the
\* registry and the key of the call.
AppStep(name) == step.m.dest = "app" /\ step.m.type = name
CallRegistry == step.m.val
CallKey == step.m.key

\* The step just taken handled this type of message for field i.
FieldStep(i, type) ==
    step.m.dest = "field" /\ step.m.field = i /\ step.m.type = type

\* C12: after any sequence of register_field calls on a registry, through the
\* clones held by any fields, registered_fields() is exactly the set of keys
\* the calls registered, in whatever order they came, and field_is_registered(k)
\* is true exactly for those keys.
C12_RegisteredFields ==
    \A r \in Regs :
        /\ registered_fields(r) = hist[r].keys
        /\ \A k \in Keys : field_is_registered(r, k) <=> k \in hist[r].keys

\* C12's case: both keys registered on R1 by two fields, one of which was then
\* reparented and registered one of the keys on R2 as well.
C12_Witness ==
    /\ hist["R1"].keys = Keys
    /\ Cardinality(hist["R2"].keys) = 1
    /\ \A i \in Fields : field[i].created /\ field[i].form_link = "R1"
    /\ \E i \in Fields : field[i].props.form_link = "R2"
    /\ registered_fields("R1") = Keys

\* C13: the handle stored under a registered key is the one of the latest
\* register_field call for that key; send_field_message(key, msg) sends msg to
\* that handle and to no other, and a broadcast sends one message to that
\* handle for every registered key.
C13_LastWriteWins ==
    /\ \A r \in Regs : \A k \in hist[r].keys :
            field_is_registered(r, k) /\ field_links[r][k] = hist[r].last[k]
    /\ (AppStep("send_field_message") /\ CallKey \in hist[CallRegistry].keys) =>
            /\ Len(step.out) = 1
            /\ IsSend(step.out[1])
            /\ step.out[1].m.dest = "field"
            /\ step.out[1].m.field = hist[CallRegistry].last[CallKey]
    /\ AppStep("send_all_fields_message") =>
            /\ Len(step.out) = Cardinality(hist[CallRegistry].keys)
            /\ \A k \in hist[CallRegistry].keys :
                Cardinality({n \in 1..Len(step.out) :
                    /\ IsSend(step.out[n])
                    /\ step.out[n].m.dest = "field"
                    /\ step.out[n].m.field = hist[CallRegistry].last[k]}) >= 1
            /\ \A n \in 1..Len(step.out) :
                step.out[n].m.field \in
                    {hist[CallRegistry].last[k] : k \in hist[CallRegistry].keys}

\* C13's case: both fields were created on R1 under the same key, so the second
\* creation replaced the handle of the first, and a message sent to the key
\* went to the field created last.
C13_Witness ==
    /\ AppStep("send_field_message")
    /\ CallRegistry = "R1"
    /\ \A i \in Fields : field[i].created /\ field[i].form_link = "R1"
    /\ Cardinality(hist["R1"].keys) = 1
    /\ CallKey \in hist["R1"].keys
    /\ step.out[1].m.field = field_links["R1"][CallKey]

\* A step in which the application makes the call `name` of a registry.
AppCalling(name) ==
    events' = events + 1 /\ step'.m.dest = "app" /\ step'.m.type = name

\* C14: send_field_message(key, msg) for a key that is not registered panics,
\* sends msg to no field (nothing joins the queue), and leaves the mappings of
\* every registry, and every component, as they were.
C14_UnregisteredKeyPanics ==
    [][(/\ AppCalling("send_field_message")
        /\ ~field_is_registered(step'.m.val, step'.m.key))
       => /\ panicked'
          /\ step'.out = <<Panic>>
          /\ queue' = queue
          /\ field_links' = field_links
          /\ form_link' = form_link
          /\ field' = field
          /\ form' = form]_vars

\* C14's case: the call named a key that is not registered on a registry that
\* holds another key and a form.
C14_Witness ==
    /\ AppStep("send_field_message")
    /\ ~field_is_registered(CallRegistry, CallKey)
    /\ registered_fields(CallRegistry) # {}
    /\ form_is_registered(CallRegistry)
    /\ panicked

\* C15: send_form_message(msg) on a registry without a form handle panics and
\* sends nothing; a field that reports a value update or a validation result
\* through such a registry panics in that step and no report reaches any form.
C15_NoFormPanics ==
    /\ (AppStep("send_form_message") /\ ~form_is_registered(CallRegistry)) =>
            panicked /\ step.out = <<Panic>>
    /\ \A i \in Fields :
            (/\ step.m.dest = "field"
             /\ step.m.field = i
             /\ step.m.type \in {"SetValidationErrors", "ClearValidationErrors", "Update"}
             /\ step.out # <<>>
             /\ ~form_is_registered(field[i].form_link)) =>
                /\ panicked
                /\ HasPanic(step.out)
                /\ SelectMsgs(step.out, "send") = <<>>

\* C15's case: a field created on a registry on which no form was ever
\* registered has handled a message that makes it report its validation errors.
C15_Witness ==
    /\ FieldStep(1, "ClearValidationErrors")
    /\ hist[field[1].form_link].form = NoForm
    /\ step.out = <<Panic>>
    /\ panicked

\* C16: the form handle of a registry is the one of the latest register_form
\* call, whatever was registered before, and form_is_registered() is true once
\* a call was made; send_form_message and every report of a field go to that
\* handle only.
C16_LastFormWins ==
    /\ \A r \in Regs :
            /\ form_link[r] = hist[r].form
            /\ form_is_registered(r) <=> hist[r].form # NoForm
    /\ (AppStep("send_form_message") /\ hist[CallRegistry].form # NoForm) =>
            /\ Len(step.out) = 1
            /\ IsSend(step.out[1])
            /\ step.out[1].m.dest = "form"
            /\ step.out[1].m.form = hist[CallRegistry].form
    /\ \A i \in Fields :
            (step.m.dest = "field" /\ step.m.field = i) =>
                \A n \in 1..Len(step.out) :
                    IsSend(step.out[n]) =>
                        /\ step.out[n].m.dest = "form"
                        /\ step.out[n].m.form = hist[field[i].form_link].form

\* C16's case: both forms were created on R1, and the report of a field on R1
\* went to the form created second.
C16_Witness ==
    /\ \A f \in Forms : form[f].created /\ form[f].form_link = "R1"
    /\ form_link["R2"] = NoForm
    /\ \E i \in Fields :
        /\ FieldStep(i, "ClearValidationErrors")
        /\ field[i].form_link = "R1"
        /\ Len(step.out) = 1
        /\ step.out[1].m.form = form_link["R1"]

C18_NeverRemoved ==
    \A r \in Regs : hist[r].keys \subseteq registered_fields(r)

\* C18's case: a field created on R1 was reparented to R2, where it registered,
\* and its key is still registered on R1.
C18_Witness ==
    \E i \in Fields :
        /\ field[i].created
        /\ field[i].form_link = "R1"
        /\ field[i].props.form_link = "R2"
        /\ field_is_registered("R2", field[i].props.field_key)
        /\ field_links["R2"][field[i].props.field_key] = i
        /\ \E k \in registered_fields("R1") : field_links["R1"][k] = i

\* A step in which field i handles the message at the head of the queue.
FieldHandling(i, type) == FieldHandles(i, type) /\ step'.m = Head(queue)

\* C19: an input field that handles Update with a value other than the stored
\* one stores the value, emits the value-updated callback with that value, then
\* sends FieldValueUpdate(key) to the form, each exactly once and in that order,
\* and requests a validation only after both; without a form handle the step
\* ends in the panic of send_form_message, after the callback.
C19_UpdateOrder ==
    [][\A i \in Fields :
        (FieldHandling(i, "Update") /\ Head(queue).val # field[i].value) =>
            LET out == step'.out
                val == Head(queue).val
                key == field[i].props.field_key
                r == field[i].form_link
            IN  /\ field'[i].value = val
                /\ Len(out) >= 2
                /\ out[1] = Emitted(Callback("onupdate", key, {}, val))
                /\ EmitsOf(out, "onupdate") = {1}
                /\ form_is_registered(r) =>
                    /\ out[2] = Sent(FormMsg(form_link[r], "FieldValueUpdate", key, {}))
                    /\ SendsOf(out, "FieldValueUpdate") = {2}
                    /\ \A n \in 1..Len(out) : IsSpawn(out[n]) => n > 2
                    /\ queue' = Append(Tail(queue), out[2].m)
                    /\ ~panicked'
                /\ ~form_is_registered(r) => (out = <<out[1], Panic>> /\ panicked')]_vars

\* C19's case: an Update that changed the value of a field whose form is
\* registered, and went on to request a validation.
C19_Witness ==
    /\ FieldStep(1, "Update")
    /\ field[1].value = "ok"
    /\ Len(step.out) = 3
    /\ IsEmit(step.out[1])
    /\ IsSend(step.out[2])
    /\ IsSpawn(step.out[3])

\* The value an Update carries equals the value the field stores.
CarriesStoredValue(fd, val) ==
    IF fd.kind = "input" THEN fd.value = val ELSE fd.value = Some(val)

\* C20: in every control whose Update carries a value (input, select,
\* multi-value), an Update with the stored value changes nothing of the field,
\* emits no value-updated callback, sends no FieldValueUpdate and starts no
\* validation.
C20_SameValueIsNoOp ==
    [][\A i \in Fields :
        (FieldHandling(i, "Update") /\ CarriesStoredValue(field[i], Head(queue).val)) =>
            /\ field'[i] = field[i]
            /\ step'.out = <<>>
            /\ futures' = futures
            /\ queue' = Tail(queue)]_vars

\* C20 holds for the text and password inputs, which compare the value first.
C20_InputSameValueIsNoOp ==
    [][\A i \in Fields :
        (/\ FieldHandling(i, "Update")
         /\ field[i].kind = "input"
         /\ CarriesStoredValue(field[i], Head(queue).val)) =>
            /\ field'[i] = field[i]
            /\ step'.out = <<>>
            /\ futures' = futures
            /\ queue' = Tail(queue)]_vars

\* C20's failing case: a select or multi-value field has handled an Update
\* with the value it already stored, and emitted, sent and validated again.
C20_SelectRepeats ==
    \E i \in Fields :
        /\ FieldStep(i, "Update")
        /\ field[i].kind \in {"select", "multi_value"}
        /\ field[i].value = Some("ok")
        /\ field[i].props.field_key = i
        /\ hist["R1"].last[i] = i
        /\ Len(step.out) = 3
        /\ Len(futures[i]) = 2

\* The effects hold a request for a validation.
RequestsValidation(out) == \E n \in 1..Len(out) : IsSpawn(out[n])

\* A FieldValidationUpdate for key k is on its way to a form.
ReportQueued(k) ==
    \E n \in 1..Len(queue) :
        queue[n].dest = "form" /\ queue[n].type = "FieldValidationUpdate" /\ queue[n].key = k

\* C21: an input field that accepts an Update (the value changed, the form is
\* there) requests a validation if and only if validate_on is AnyEvent, or
\* validate_on is ChangeEvent and the update came from a change event; a field
\* with validate_on = None never has a validation under way, never holds a
\* validation result and never reports one to the form.
C21_ValidateOn ==
    [][/\ \A i \in Fields :
            (/\ FieldHandling(i, "Update")
             /\ field[i].kind = "input"
             /\ Head(queue).val # field[i].value
             /\ ~panicked') =>
                LET validate_on == field[i].props.validate_on
                    expected == \/ validate_on = "AnyEvent"
                                \/ validate_on = "ChangeEvent" /\ Head(queue).src = "ChangeEvent"
                IN  /\ RequestsValidation(step'.out) <=> expected
                    /\ Len(futures'[i]) = Len(futures[i]) + (IF expected THEN 1 ELSE 0)
       /\ \A i \in Fields :
            (field'[i].created /\ field'[i].kind = "input"
             /\ field'[i].props.validate_on = "None") =>
                /\ futures'[i] = <<>>
                /\ ~(FieldStep(i, "SetValidationErrors"))'
                /\ ~ReportQueued(field[i].props.field_key)'
                /\ ReportsSince("F1", field[i].props.field_key)' = 0]_vars

\* C21's case: a field with validate_on = ChangeEvent accepted an Update that
\* came from an input event and requested no validation, while another with
\* validate_on = None accepted an Update from a change event.
C21_Witness ==
    /\ field[1].created /\ field[1].props.validate_on = "ChangeEvent"
    /\ field[2].created /\ field[2].props.validate_on = "None"
    /\ field[2].value = "x"
    /\ FieldStep(1, "Update")
    /\ step.m.src = "InputEvent"
    /\ field[1].value = "ok"
    /\ Len(step.out) = 2
    /\ ~panicked

\* What C22 says of the fields of the kinds given.
ValidateOnUpdateHeeded(kinds) ==
    /\ \A i \in Fields :
        (/\ FieldHandling(i, "Update")
         /\ field[i].kind \in kinds
         /\ ~panicked') =>
            /\ RequestsValidation(step'.out) <=> field[i].props.validate_on_update
            /\ SendsOf(step'.out, "FieldValueUpdate") # {}
    /\ \A i \in Fields :
        (field'[i].created /\ field'[i].kind \in kinds
         /\ ~field'[i].props.validate_on_update) =>
            /\ futures'[i] = <<>>
            /\ ~(FieldStep(i, "SetValidationErrors"))'
            /\ ~ReportQueued(field[i].props.field_key)'
            /\ ReportsSince("F1", field[i].props.field_key)' = 0

\* C22: a checkbox, select or radio field that handles Update requests a
\* validation if and only if validate_on_update is true; with validate_on_update
\* false the Update stores the value and tells the form of the value change,
\* and no validation result is ever reported to the form.
C22_ValidateOnUpdate ==
    [][ValidateOnUpdateHeeded({"checkbox", "select", "multi_value"})]_vars

\* The checkbox field alone does what C22 says.
C22_CheckboxValidateOnUpdate == [][ValidateOnUpdateHeeded({"checkbox"})]_vars

\* No select field with validate_on_update = false has reported a validation
\* result to the form (the state that C22 excludes and the program reaches).
C22_SelectNeverReports ==
    ~(/\ field[1].created /\ field[1].kind = "select"
      /\ ~field[1].props.validate_on_update
      /\ ReportsSince("F1", 1) = 1)

\* The errors that come from an extra_errors property.
FromExtraErrors == UNION {UNION ExtraErrors(i) : i \in Fields}

\* C23: every FieldValidationUpdate(key, errors) sent to the form is sent by a
\* field that handles a validation result or ClearValidationErrors; it carries
\* that field's key and exactly the errors the field has just stored as its
\* validation_errors, and none of the errors of an extra_errors property,
\* whatever the kind of the field and the property changes before.
C23_ReportsStoredErrors ==
    [][\A n \in 1..Len(step'.out) :
        (IsSend(step'.out[n]) /\ step'.out[n].m.type = "FieldValidationUpdate") =>
            \E i \in Fields :
                /\ \/ FieldHandling(i, "SetValidationErrors")
                   \/ FieldHandling(i, "ClearValidationErrors")
                /\ step'.out[n].m.key = field'[i].props.field_key
                /\ step'.out[n].m.errs = field'[i].validation_errors
                /\ step'.out[n].m.errs \cap FromExtraErrors = {}
                /\ Len(step'.out) = 1]_vars

\* C23's case: an input field whose extra_errors were changed to a non-empty
\* set has just stored a non-empty validation result and reported it, while
\* it displays both.
C23_Witness ==
    /\ FieldStep(1, "SetValidationErrors")
    /\ field[1].kind = "input"
    /\ field[1].props.extra_errors = {<<1, "extra">>}
    /\ field[1].validation_errors = {<<1, "invalid">>}
    /\ field[1].display_validation_errors = {<<1, "invalid">>, <<1, "extra">>}
    /\ step.out = <<Sent(FormMsg("F1", "FieldValidationUpdate", 1, {<<1, "invalid">>}))>>
    /\ events = 2

\* C24: an input, select or multi-value field whose validation_errors and
\* extra_errors are both empty handles ClearValidationErrors by leaving its
\* validation_errors and display_validation_errors empty and sending
\* FieldValidationUpdate(key, {}) to the form, so that a second
\* ClearValidationErrors finds the same field state and sends the same
\* notification; the form that handles the notification has an entry for the
\* key afterwards.
C24_ClearIsIdempotent ==
    [][/\ \A i \in Fields :
            (/\ FieldHandling(i, "ClearValidationErrors")
             /\ field[i].kind \in {"input", "select", "multi_value"}
             /\ field[i].validation_errors = {}
             /\ field[i].props.extra_errors = {}
             /\ ~panicked') =>
                /\ field'[i].validation_errors = {}
                /\ field'[i].display_validation_errors = {}
                /\ field[i].display_validation_errors = {} => field'[i] = field[i]
                /\ step'.out = <<Sent(FormMsg("F1", "FieldValidationUpdate",
                                              field[i].props.field_key, {}))>>
                /\ queue' = Tail(queue) \o <<step'.out[1].m>>
       /\ (FormHandling("F1", "FieldValidationUpdate") /\ Head(queue).errs = {}) =>
            /\ Head(queue).key \in DOMAIN form'["F1"].validation_errors
            /\ form'["F1"].validation_errors[Head(queue).key] = {}]_vars

\* C24's case: a select field that never had a value or an error handles its
\* second ClearValidationErrors; the form has the entry the first one made.
C24_Witness ==
    /\ FieldStep(1, "ClearValidationErrors")
    /\ field[1].kind = "select"
    /\ field[1].value = None
    /\ futures[1] = <<>>
    /\ field[1].props.extra_errors = {}
    /\ field[1].validation_errors = {}
    /\ field[1].display_validation_errors = {}
    /\ ReportsSince("F1", 1) = 1
    /\ 1 \in DOMAIN form["F1"].validation_errors
    /\ step.out = <<Sent(FormMsg("F1", "FieldValidationUpdate", 1, {}))>>
    /\ events = 2

\* C25: in every state an input field displays exactly its validation_errors
\* together with the extra_errors of its current properties, whether it was
\* just created, has stored a validation result, has cleared its errors or
\* has been given other properties.
C25_DisplayIsUnion ==
    \A i \in Fields :
        (field[i].created /\ field[i].kind = "input") =>
            field[i].display_validation_errors =
                field[i].validation_errors \cup field[i].props.extra_errors

\* C25's case: the only field, an input field that stored a validation error,
\* has just been given properties and now has extra errors.
C25_Witness ==
    /\ field[1].created /\ field[1].kind = "input"
    /\ ~field[2].created
    /\ step = NoStep /\ queue = <<>> /\ futures[1] = <<>>
    /\ events = 2
    /\ field[1].props.extra_errors = {<<1, "extra">>}
    /\ field[1].validation_errors = {<<1, "invalid">>}
    /\ field[1].display_validation_errors = {<<1, "invalid">>, <<1, "extra">>}

\* Field i is given properties that differ from its own in extra_errors only.
ExtraErrorsChange(i) ==
    /\ field[i].created
    /\ field'[i].props # field[i].props
    /\ field'[i].props = [field[i].props EXCEPT !.extra_errors = field'[i].props.extra_errors]

\* C26: a change of properties that alters only the extra_errors of a field,
\* of any kind, starts no validation, sends no message (to the form or to
\* anything else), and leaves the field's value, the form's validation_errors
\* and its validating flag as they were.
C26_ExtraErrorsFrame ==
    [][\A i \in Fields :
        ExtraErrorsChange(i) =>
            /\ futures' = futures
            /\ queue' = queue
            /\ step'.out = <<>>
            /\ field'[i].value = field[i].value
            /\ form' = form
            /\ ~panicked']_vars

\* C26's case: a checkbox field, checked and with a validation under way, has
\* just been given extra errors.
C26_Witness ==
    /\ field[1].created /\ field[1].kind = "checkbox"
    /\ ~field[2].created
    /\ field[1].value = "Checked"
    /\ field[1].props.extra_errors = {<<1, "extra">>}
    /\ field[1].display_validation_errors = {}
    /\ Len(futures[1]) = 1
    /\ step = NoStep /\ queue = <<>>
    /\ events = 2

\* Field i is given properties other than its own.
PropertiesChange(i) == field[i].created /\ field'[i].props # field[i].props

\* C27: when a field is given properties whose form_link is another registry,
\* it registers its handle under the (new) key there if that registry has no
\* entry for the key, and leaves the registry as it is if it has one; the
\* registry it was on keeps every entry; properties with the same registry
\* register nothing.
C27_Reparenting ==
    [][\A i \in Fields :
        PropertiesChange(i) =>
            LET old == field[i].props.form_link
                new == field'[i].props.form_link
                key == field'[i].props.field_key
            IN  IF FormFieldLinkEq(old, new)
                THEN field_links' = field_links
                ELSE /\ field_links'[old] = field_links[old]
                     /\ \A r \in Regs \ {new} : field_links'[r] = field_links[r]
                     /\ IF field_is_registered(new, key)
                        THEN field_links'[new] = field_links[new]
                        ELSE /\ DOMAIN field_links'[new] = registered_fields(new) \cup {key}
                             /\ field_links'[new][key] = i
                             /\ \A k \in registered_fields(new) :
                                    field_links'[new][k] = field_links[new][k]]_vars

\* C27's case: field 1, registered on R1, has just been given R2, where
\* field 2 holds the entry for its key: that entry is still field 2's, and
\* R1 still holds field 1's.
C27_Witness ==
    /\ field[1].created /\ field[2].created
    /\ field[1].props.form_link = "R2"
    /\ field[1].form_link = "R1"
    /\ field[2].props.form_link = "R2"
    /\ field[1].props.field_key = field[2].props.field_key
    /\ field_links["R2"][field[1].props.field_key] = 2
    /\ field_is_registered("R1", field[1].props.field_key)
    /\ field_links["R1"][field[1].props.field_key] = 1
    /\ step = NoStep
    /\ events = 1

\* The fields the messages sent in out go to.
SentTo(out) == {out[n].m.field : n \in {m \in 1..Len(out) : IsSend(out[m]) /\ out[m].m.dest = "field"}}

\* The fields whose handles registry r holds.
HandlesOf(r) == {field_links[r][k] : k \in registered_fields(r)}

\* C28: when a form is given properties whose form_link is another registry,
\* it registers its handle there if and only if that registry has no form
\* handle, a handle already there staying in place, and no other registry is
\* touched; from then on the form's ValidateThenSubmit sends Validate to the
\* fields of the registry it was last given and to no other, and its
\* FieldValidationUpdate submits exactly when it is validating and every key of
\* that registry has an entry.
C28_FormReparenting ==
    [][\A f \in Forms :
        /\ (form[f].created /\ form'[f].props_form_link # form[f].props_form_link) =>
            LET new == form'[f].props_form_link
            IN  /\ form_link'[new] = IF form_link[new] = NoForm THEN f ELSE form_link[new]
                /\ \A r \in Regs \ {new} : form_link'[r] = form_link[r]
                /\ field_links' = field_links
                /\ form'[f].form_link = new
                /\ queue' = queue
        /\ FormHandling(f, "ValidateThenSubmit") =>
            /\ SentTo(step'.out) = HandlesOf(form[f].props_form_link)
            /\ \A n \in 1..Len(step'.out) :
                IsSend(step'.out[n]) => step'.out[n].m.type = "Validate"
        /\ FormHandling(f, "FieldValidationUpdate") =>
            (SendsOf(step'.out, "Submit") # {} <=>
                /\ form[f].validating
                /\ \A k \in registered_fields(form[f].props_form_link) :
                       k \in DOMAIN form'[f].validation_errors)]_vars

\* C28's case: form F1, created on R1 (which still holds its handle), was given
\* R2, which had no form; its ValidateThenSubmit went to the field of R2 alone,
\* and the report of that field has just made it submit although the field of
\* R1 has reported nothing.
C28_Witness ==
    /\ form["F1"].created /\ ~form["F2"].created
    /\ form["F1"].props_form_link = "R2"
    /\ form_link["R1"] = "F1" /\ form_link["R2"] = "F1"
    /\ field[1].created /\ field[1].props.form_link = "R1"
    /\ field[2].created /\ field[2].props.form_link = "R2"
    /\ FormStep("F1", "FieldValidationUpdate")
    /\ step.m.key = 2
    /\ DOMAIN form["F1"].validation_errors = {2}
    /\ SendsOf(step.out, "Submit") # {}
    /\ events = 2

\* C29: a checkbox field is created Unchecked and changes its state only by
\* handling Update, which takes Unchecked to Checked and Checked back to
\* Unchecked; every Update emits onchange with the new state, then sends one
\* FieldValueUpdate(key) to the form, and does nothing else but request a
\* validation.
C29_Toggle ==
    [][\A i \in Fields :
        /\ (~field[i].created /\ field'[i].created) => field'[i].value = "Unchecked"
        /\ (field[i].created /\ field'[i].value # field[i].value) =>
                FieldHandling(i, "Update")
        /\ (FieldHandling(i, "Update") /\ form_is_registered(field[i].form_link)) =>
            LET out == step'.out
                key == field[i].props.field_key
            IN  /\ field[i].value = "Unchecked" => field'[i].value = "Checked"
                /\ field[i].value = "Checked" => field'[i].value = "Unchecked"
                /\ Len(out) >= 2
                /\ out[1] = Emitted(Callback("onchange", key, {}, field'[i].value))
                /\ out[2] = Sent(FormMsg("F1", "FieldValueUpdate", key, {}))
                /\ EmitsOf(out, "onchange") = {1}
                /\ SendsOf(out, "FieldValueUpdate") = {2}
                /\ \A n \in 3..Len(out) : IsSpawn(out[n])
                /\ queue' = Tail(queue) \o <<out[2].m>>]_vars

\* C29's case: the only checkbox has handled its second Update: it emitted
\* onchange(Unchecked), told the form, and is unchecked again.
C29_Witness ==
    /\ field[1].created /\ field[1].kind = "checkbox"
    /\ ~field[2].created
    /\ events = 2
    /\ FieldStep(1, "Update")
    /\ field[1].value = "Unchecked"
    /\ step.out[1] = Emitted(Callback("onchange", 1, {}, "Unchecked"))
    /\ step.out[2] = Sent(FormMsg("F1", "FieldValueUpdate", 1, {}))
    /\ ~panicked

\* What C30 says of the fields of the kinds given.
DisplayFollowsChange(kinds) ==
    \A i \in Fields :
        (/\ PropertiesChange(i)
         /\ field[i].kind \in kinds
         /\ field'[i].props.extra_errors # field[i].props.extra_errors) =>
            field'[i].display_validation_errors =
                field'[i].validation_errors \cup field'[i].props.extra_errors

\* C30: a select or multi-value (radio) field that is given properties with
\* other extra_errors displays, from that moment, its validation_errors
\* together with the new extra_errors.
C30_DisplayFollowsChange == [][DisplayFollowsChange({"select", "multi_value"})]_vars

\* The input field does what C30 says of the other two.
C30_InputDisplayFollowsChange == [][DisplayFollowsChange({"input"})]_vars

\* C31: a checkbox field that is given properties with other extra_errors
\* keeps its validation_errors as they were and displays them together with
\* the new extra_errors.
C31_CheckboxChangeFrame ==
    [][\A i \in Fields :
        (/\ PropertiesChange(i)
         /\ field[i].kind = "checkbox"
         /\ field'[i].props.extra_errors # field[i].props.extra_errors) =>
            /\ field'[i].validation_errors = field[i].validation_errors
            /\ field'[i].display_validation_errors =
                    field[i].validation_errors \cup field'[i].props.extra_errors]_vars

\* No checkbox field holds an extra error among its validation_errors (the
\* state that C31 excludes and the program reaches).
C31_NoExtraInValidationErrors ==
    \A i \in Fields :
        (field[i].created /\ field[i].kind = "checkbox") =>
            field[i].validation_errors \cap FromExtraErrors = {}

\* What C32 says of the fields of the kinds given.
ClearsItsErrors(kinds) ==
    \A i \in Fields :
        (/\ FieldHandling(i, "ClearValidationErrors")
         /\ field[i].kind \in kinds
         /\ form_is_registered(field[i].form_link)) =>
            /\ field'[i].validation_errors = {}
            /\ step'.out = <<Sent(FormMsg("F1", "FieldValidationUpdate",
                                          field[i].props.field_key, {}))>>

\* C32: a field of any kind, the checkbox field included, that is delivered
\* ClearValidationErrors through the registry empties its validation_errors and
\* sends FieldValidationUpdate(key, {}) to the form.
C32_EveryFieldClears ==
    [][ClearsItsErrors({"input", "select", "multi_value", "checkbox"})]_vars

\* The input, select and multi-value fields do what C32 says.
C32_OtherFieldsClear == [][ClearsItsErrors({"input", "select", "multi_value"})]_vars

\* A step in which the Select of field i handles Selected.
SelectHandling(i) == SelectHandles(i) /\ step'.m = Head(queue)

\* What C33 says of the indices in the set given.
SelectedIndexHandled(indices) ==
    \A i \in Fields :
        (SelectHandling(i) /\ Head(queue).key \in indices) =>
            LET idx == Head(queue).key
            IN  /\ ~panicked'
                /\ IF 1 <= idx /\ idx <= Len(options(i))
                   THEN /\ EmitsOf(step'.out, "onchange") = {1}
                        /\ step'.out[1].m.val = options(i)[idx]
                   ELSE step'.out = <<>>

\* C33: the Select with n options that handles Selected(idx) emits onchange
\* with options[idx - 1] when 1 <= idx <= n, and for every other index,
\* 0 and the usize of -1 included, emits nothing and does not fail.
C33_SelectedIndex == [][SelectedIndexHandled(0..(2 ^ UsizeBits - 1))]_vars

\* Every index but 0 is handled as C33 says, the usize of -1 included.
C33_IndexAboveZero == [][SelectedIndexHandled(1..(2 ^ UsizeBits - 1))]_vars

\* No Select has failed on the index of the placeholder (the state that C33
\* excludes and a build with overflow checks reaches).
C33_PlaceholderNeverFails ==
    ~(panicked /\ step.m.dest = "select" /\ step.m.key = 0)

\* C34: every FieldValueUpdate and FieldValidationUpdate a field sends goes to
\* the form registered in the registry of the field's current properties, and
\* so, after the field was given another registry, to the form of the new
\* registry and not to the form of the old one.
C34_SendsToNewRegistry ==
    [][\A i \in Fields :
        (/\ ~panicked /\ queue # <<>>
         /\ Head(queue).dest = "field" /\ Head(queue).field = i
         /\ step'.m = Head(queue)) =>
            \A n \in 1..Len(step'.out) :
                (IsSend(step'.out[n]) /\ step'.out[n].m.dest = "form") =>
                    step'.out[n].m.form = form_link[field[i].props.form_link]]_vars

\* No field whose properties name R2 has reported to the form of R1 while
\* another form is registered on R2 (the state that C34 excludes and the
\* program reaches).
C34_NeverReportsToOldForm ==
    ~(\E i \in Fields :
        /\ FieldStep(i, "ClearValidationErrors")
        /\ field[i].props.form_link = "R2"
        /\ form_link["R1"] = "F1" /\ form_link["R2"] = "F2"
        /\ SendsOf(step.out, "FieldValidationUpdate") # {}
        /\ step.out[1].m.form = "F1")

\* The step just taken emitted a submit notification carrying success.
SubmittedSuccess(f) ==
    /\ FormStep(f, "Submit")
    /\ \E n \in EmitsOf(step.out, "onsubmit") : step.out[n].m.val = "Ok"

\* C35: whenever a form emits a submit notification carrying success, every
\* key registered in its registry has an entry in validation_errors, and every
\* such entry is the empty set, however ValidateThenSubmit, FieldValidationUpdate
\* and Submit are interleaved in the queue.
C35_SuccessMeansAllValid ==
    \A f \in Forms :
        SubmittedSuccess(f) =>
            \A k \in registered_fields(form[f].props_form_link) :
                /\ k \in DOMAIN form[f].validation_errors
                /\ form[f].validation_errors[k] = {}

\* No success is emitted while the form is validating again, with no entry
\* for a field that registered before the first ValidateThenSubmit (the state
\* that C35 excludes and the program reaches).
C35_NoSuccessWhileValidating ==
    ~(/\ SubmittedSuccess("F1")
      /\ form["F1"].validating
      /\ hist["F1"].vts = 2
      /\ 1 \in hist["F1"].at_vts
      /\ 1 \notin DOMAIN form["F1"].validation_errors
      /\ field[1].value = "")

\* The Submit messages for form f that wait in the queue.
SubmitsQueued(f) ==
    Cardinality({n \in 1..Len(queue) : queue[n] = FormMsg(f, "Submit", 0, {})})

\* C36: the submit notifications a form has emitted, together with the Submit
\* messages it has sent itself and has yet to handle, never outnumber the
\* ValidateThenSubmit messages it has handled, whatever reports arrive and
\* whenever they arrive.
C36_SubmitsBoundedByRequests ==
    \A f \in Forms : SubmitCount(f) + SubmitsQueued(f) <= hist[f].vts

\* C36's case: after the one ValidateThenSubmit was answered by a submit
\* notification, a report from a validation started by an Update of the field
\* has just been handled, with every key reported, and no Submit was sent.
C36_Witness ==
    /\ FormStep("F1", "FieldValidationUpdate")
    /\ hist["F1"].vts = 1
    /\ SubmitCount("F1") = 1
    /\ ReportsSince("F1", 1) = 2
    /\ field[1].value = "ok"
    /\ all_validated(form["F1"].validation_errors, "R1")
    /\ SendsOf(step.out, "Submit") = {}
    /\ queue = <<>>
    /\ events = 2

\* Nothing of field i is under way: no validation in flight, no message for
\* the field and no report under its key in the queue.
Settled(i) ==
    /\ futures[i] = <<>>
    /\ \A n \in 1..Len(queue) :
        /\ ~(queue[n].dest = "field" /\ queue[n].field = i)
        /\ ~(queue[n].dest = "form" /\ queue[n].key = field[i].props.field_key)

\* C37: once nothing of a field that validates on every Update is under way
\* and the form has had a report from it, the field's validation_errors, and
\* the entry the form holds for its key, are the validator's result for the
\* value the field holds now, in whatever order its validations completed.
C37_SettledErrorsMatchValue ==
    \A i \in Fields :
        (/\ field[i].created /\ field[i].kind = "input"
         /\ field[i].props.validate_on = "AnyEvent"
         /\ ~panicked
         /\ Settled(i)
         /\ ReportsSince("F1", field[i].props.field_key) >= 1) =>
            /\ field[i].validation_errors = validate_future(field[i])
            /\ form["F1"].validation_errors[field[i].props.field_key]
                    = validate_future(field[i])

\* No settled field holds the error of a value it no longer has (the state
\* that C37 excludes and the program reaches: two validations completed in
\* the reverse of the order of their Updates).
C37_NoStaleErrors ==
    ~(/\ field[1].created /\ field[1].props.validate_on = "AnyEvent"
      /\ Settled(1) /\ ~panicked
      /\ field[1].value = "ok"
      /\ field[1].validation_errors = {<<1, "invalid">>}
      /\ ReportsSince("F1", 1) = 2)

\* C38: a ValidateThenSubmit handled by a form whose registry holds no field is
\* followed, with nothing further from outside the form, by a submit
\* notification carrying success and by validating being false again.
C38_EmptyRegistrySubmits ==
    (hist["F1"].vts = 1 /\ registered_fields("R1") = {}) ~>
        (/\ SubmitCount("F1") = 1
         /\ hist["F1"].submits[1].val = "Ok"
         /\ ~form["F1"].validating)

\* C38's failing case is a state the form rests in: nothing is left to run, no
\* field is registered, the form is still validating and has not submitted.
C38_NeverRestsValidating ==
    ~(/\ Quiescent
      /\ hist["F1"].vts = 1
      /\ registered_fields("R1") = {}
      /\ form["F1"].validating
      /\ SubmitCount("F1") = 0)

\* Field i registered under its key and has since been unmounted.
Unmounted(i) == field[i].created /\ ~field[i].mounted

\* Every field still mounted has its report in the form's map.
MountedReported(f) ==
    \A i \in Fields :
        (field[i].created /\ field[i].mounted) =>
            field[i].props.field_key \in DOMAIN form[f].validation_errors

\* C39: when the form handles a ValidateThenSubmit after a registered field has
\* been unmounted, a submit notification follows and validating returns to
\* false, the mounted fields having reported.
C39_SubmitsDespiteUnmounted ==
    (FormStep("F1", "ValidateThenSubmit") /\ \E i \in Fields : Unmounted(i)) ~>
        (SubmitCount("F1") >= 1 /\ ~form["F1"].validating)

\* C39's failing case is a state the form rests in: a field was unmounted
\* before the ValidateThenSubmit, every mounted field has reported, nothing is
\* left to run, and the form is still validating without having submitted.
C39_NeverRestsOnUnmounted ==
    ~(/\ Quiescent
      /\ hist["F1"].vts = 1
      /\ \E i \in Fields : Unmounted(i)
      /\ \E i \in Fields : field[i].created /\ field[i].mounted
      /\ MountedReported("F1")
      /\ form["F1"].validating
      /\ SubmitCount("F1") = 0)

\* C39, while every registered field is mounted: the submit notification comes.
C39_SubmitsWhenAllMounted ==
    (/\ FormStep("F1", "ValidateThenSubmit")
     /\ registered_fields("R1") # {}
     /\ hist["F1"].vts = 1) ~>
        (\/ SubmitCount("F1") >= 1
         \/ \E i \in Fields : Unmounted(i)
         \/ hist["F1"].vts > 1)

\* The FieldValidationUpdate messages among the effects out.
ReportsOf(out) ==
    {n \in 1..Len(out) : IsSend(out[n]) /\ out[n].m.type = "FieldValidationUpdate"}

\* C40: every FieldValidationUpdate(key, _) a field sends carries a key under
\* which that field is registered in the registry of the form that receives
\* it, after any changes of the field's properties.
C40_ReportsUnderRegisteredKey ==
    [][\A i \in Fields :
        FieldHandling(i, "SetValidationErrors") =>
            \A n \in ReportsOf(step'.out) :
                LET r == form[step'.out[n].m.form].props_form_link
                    key == step'.out[n].m.key
                IN  /\ field_is_registered(r, key)
                    /\ field_links[r][key] = i]_vars

\* C40, the change of key alone: after a field was given another key on the
\* same registry, the key is registered there.
C40_NewKeyIsRegistered ==
    \A i \in Fields :
        (field[i].created /\ field[i].props.form_link = field[i].form_link) =>
            field_is_registered(field[i].form_link, field[i].props.field_key)

\* C40, the cycle: a ValidateThenSubmit handled when a field has been given
\* another key on the same registry completes with a submit notification.
C40_RekeyedCycleCompletes ==
    (/\ FormStep("F1", "ValidateThenSubmit")
     /\ \E i \in Fields :
            /\ field[i].created
            /\ field[i].props.form_link = "R1"
            /\ field[i].props.field_key # i) ~>
        (SubmitCount("F1") >= 1 /\ ~form["F1"].validating)

\* C40, while every field keeps its key and registry: the report carries the
\* key under which the field is registered.
C40_UnchangedFieldsReport ==
    [][\A i \in Fields :
        (/\ FieldHandling(i, "SetValidationErrors")
         /\ \A j \in Fields :
                field[j].props.field_key = j /\ field[j].props.form_link = "R1") =>
            \A n \in ReportsOf(step'.out) :
                LET r == form[step'.out[n].m.form].props_form_link
                    key == step'.out[n].m.key
                IN  /\ field_is_registered(r, key)
                    /\ field_links[r][key] = i]_vars

====
